---- MODULE Spec2Model ----
(***************************************************************************)
(* Model of the chat backend of src/backend/server.js: the model invoker   *)
(* callGemini, the text extractor extractJson, the intent classifier       *)
(* detectIntent with its keyword fallback, the three category handlers and *)
(* the POST /chat dispatch endpoint; and of the chat UI of                 *)
(* src/src/App.jsx, the component App with its handler generateAnswer.     *)
(*                                                                         *)
(* JavaScript strings are modelled as sequences of one-character strings,  *)
(* so that the regular expressions and JSON.parse of the source operate on *)
(* characters as they do in the code.                                      *)
(***************************************************************************)
EXTENDS Integers, Sequences, FiniteSets, TLC

(***************************************************************************)
(* Strings                                                                 *)
(***************************************************************************)
UpperChars == <<"A", "B", "C", "D", "E", "F", "G", "H", "I", "J", "K", "L", "M",
                "N", "O", "P", "Q", "R", "S", "T", "U", "V", "W", "X", "Y", "Z">>
LowerChars == <<"a", "b", "c", "d", "e", "f", "g", "h", "i", "j", "k", "l", "m",
                "n", "o", "p", "q", "r", "s", "t", "u", "v", "w", "x", "y", "z">>
DigitChars == {"0", "1", "2", "3", "4", "5", "6", "7", "8", "9"}

Range(f) == {f[i] : i \in DOMAIN f}
Min(S) == CHOOSE x \in S : \A y \in S : x <= y
Max(S) == CHOOSE x \in S : \A y \in S : y <= x
\* the least element of S, d when S is empty
MinOr(S, d) == IF S = {} THEN d ELSE Min(S)

LetterSet == Range(UpperChars) \cup Range(LowerChars)
\* \s of a JavaScript regular expression, on the characters the model uses
IsSpace(c) == c \in {" ", "\n", "\t"}

\* String.prototype.toLowerCase
toLowerCase(s) ==
    [i \in DOMAIN s |->
        IF s[i] \in Range(UpperChars)
        THEN LowerChars[CHOOSE k \in DOMAIN UpperChars : UpperChars[k] = s[i]]
        ELSE s[i]]

\* the characters a..b of s (1-based, inclusive), empty when a > b
Slice(s, a, b) == IF a > b THEN <<>> ELSE SubSeq(s, a, b)

\* whether the literal lit occurs in s at position i (case-sensitive)
MatchAt(s, i, lit) ==
    /\ i >= 1
    /\ i + Len(lit) - 1 <= Len(s)
    /\ \A k \in 1..Len(lit) : s[i + k - 1] = lit[k]

\* String.prototype.includes
includes(s, lit) == \E i \in 1..(Len(s) + 1) : MatchAt(s, i, lit)

\* String.prototype.trim
trim(s) ==
    LET NonSpace == {i \in DOMAIN s : ~IsSpace(s[i])} IN
    IF NonSpace = {} THEN <<>> ELSE SubSeq(s, Min(NonSpace), Max(NonSpace))

\* the first position >= i of s that holds no white space (Len(s) + 1 if none)
SkipSpace(s, i) == MinOr({j \in i..Len(s) : ~IsSpace(s[j])}, Len(s) + 1)

(***************************************************************************)
(* JavaScript values held in parsed model output.  A value is a record     *)
(* tagged with its typeof; Undefined is the value of a missing property.   *)
(***************************************************************************)
Undefined == [t |-> "undefined"]
Null == [t |-> "null"]
Str(s) == [t |-> "string", s |-> s]
Num(n) == [t |-> "number", n |-> n]
Bool(b) == [t |-> "boolean", b |-> b]
Obj(o) == [t |-> "object", o |-> o]

\* ToBoolean with only undefined and null falsy
TruthyUnlessNullish(v) == v.t \notin {"undefined", "null"}

\* ToBoolean
Truthy(v) ==
    CASE v.t = "undefined" -> FALSE
      [] v.t = "null" -> FALSE
      [] v.t = "string" -> v.s # <<>>
      [] v.t = "number" -> v.n # 0
      [] v.t = "boolean" -> v.b
      [] OTHER -> TRUE

\* property access v.key of a value that is not null or undefined
Get(v, key) ==
    IF v.t = "object" /\ key \in DOMAIN v.o THEN v.o[key] ELSE Undefined

\* v?.key
OptGet(v, key) == IF v.t \in {"null", "undefined"} THEN Undefined ELSE Get(v, key)

\* v ?? d
Coalesce(v, d) == IF v.t \in {"undefined", "null"} THEN d ELSE v

(***************************************************************************)
(* JSON.parse, for the JSON texts without arrays, escapes, signs and       *)
(* fractions: objects, strings, unsigned integers, true, false and null.   *)
(* ParseValue(s, i) parses one value of s from position i and yields       *)
(* [ok, v, next]; JSONparse yields [ok |-> FALSE] where JSON.parse throws. *)
(***************************************************************************)
ParseFail == [ok |-> FALSE, v |-> Undefined, next |-> 0]
Parsed(v, next) == [ok |-> TRUE, v |-> v, next |-> next]

RECURSIVE ParseDigits(_, _, _)
ParseDigits(s, i, acc) ==
    LET
        DigitValue(c) ==
            CASE c = "0" -> 0 [] c = "1" -> 1 [] c = "2" -> 2 [] c = "3" -> 3 [] c = "4" -> 4
              [] c = "5" -> 5 [] c = "6" -> 6 [] c = "7" -> 7 [] c = "8" -> 8 [] OTHER -> 9
    IN
    IF i <= Len(s) /\ s[i] \in DigitChars
    THEN ParseDigits(s, i + 1, acc * 10 + DigitValue(s[i]))
    ELSE Parsed(Num(acc), i)

\* a string literal that opens at position i and closes at j (0: it does not close)
ParseString(s, i) ==
    LET j == MinOr({j \in (i + 1)..Len(s) : s[j] = "\""}, 0) IN
    IF j = 0 \/ \E k \in (i + 1)..(j - 1) : s[k] = "\n"
    THEN ParseFail
    ELSE Parsed(Str(Slice(s, i + 1, j - 1)), j + 1)

\* o with o[key] = v
Put(o, key, v) == [k \in DOMAIN o \cup {key} |-> IF k = key THEN v ELSE o[k]]

RECURSIVE ParseValueAt(_, _), ParseMembers(_, _, _), ParseMemberValue(_, _, _),
          ParseNext(_, _, _, _)
\* the value that starts at position i, which holds no white space
ParseValueAt(s, i) ==
    IF i > Len(s) THEN ParseFail
    ELSE IF s[i] = "{" THEN
        \* an object: it closes at once, or its members follow
        IF SkipSpace(s, i + 1) <= Len(s) /\ s[SkipSpace(s, i + 1)] = "}"
        THEN Parsed(Obj([k \in {} |-> Undefined]), SkipSpace(s, i + 1) + 1)
        ELSE ParseMembers(s, SkipSpace(s, i + 1), [k \in {} |-> Undefined])
    ELSE IF s[i] = "\"" THEN ParseString(s, i)
    ELSE IF s[i] \in DigitChars THEN
        \* a number does not start with a superfluous zero
        IF s[i] = "0" /\ i < Len(s) /\ s[i + 1] \in DigitChars THEN ParseFail
        ELSE ParseDigits(s, i, 0)
    ELSE IF MatchAt(s, i, <<"t", "r", "u", "e">>) THEN Parsed(Bool(TRUE), i + 4)
    ELSE IF MatchAt(s, i, <<"f", "a", "l", "s", "e">>) THEN Parsed(Bool(FALSE), i + 5)
    ELSE IF MatchAt(s, i, <<"n", "u", "l", "l">>) THEN Parsed(Null, i + 4)
    ELSE ParseFail

\* the members of an object from position i, where a key is expected; o the members so far
ParseMembers(s, i, o) ==
    IF i > Len(s) \/ s[i] # "\"" THEN ParseFail ELSE ParseMemberValue(s, ParseString(s, i), o)

\* the colon and the value that follow the key
ParseMemberValue(s, key, o) ==
    IF ~key.ok THEN ParseFail
    ELSE IF SkipSpace(s, key.next) > Len(s) \/ s[SkipSpace(s, key.next)] # ":" THEN ParseFail
    ELSE ParseNext(s, key.v.s,
                   ParseValueAt(s, SkipSpace(s, SkipSpace(s, key.next) + 1)), o)

\* the comma or the closing brace that follows the value val of key
ParseNext(s, key, val, o) ==
    IF ~val.ok \/ SkipSpace(s, val.next) > Len(s) THEN ParseFail
    ELSE IF s[SkipSpace(s, val.next)] = "}"
    THEN Parsed(Obj(Put(o, key, val.v)), SkipSpace(s, val.next) + 1)
    ELSE IF s[SkipSpace(s, val.next)] = ","
    THEN ParseMembers(s, SkipSpace(s, SkipSpace(s, val.next) + 1), Put(o, key, val.v))
    ELSE ParseFail

\* the whole text is one value
JSONparse(s) ==
    LET r == ParseValueAt(s, SkipSpace(s, 1)) IN
    IF r.ok /\ SkipSpace(s, r.next) > Len(s) THEN [ok |-> TRUE, v |-> r.v]
    ELSE [ok |-> FALSE, v |-> Undefined]

(***************************************************************************)
(* extractJson (server.js 72-88)                                           *)
(***************************************************************************)
\* The backquote cannot be written in a TLA+ string: the atom BQ stands for that character.
BQ == "BACKQUOTE"
Fence == <<BQ, BQ, BQ>>
JsonFence == <<BQ, BQ, BQ, "j", "s", "o", "n">>

\* The first alternative of the pattern of line 75 at position p: the json-tagged
\* fence, white space, the lazy group 1, white space, the closing fence.  Group 1
\* starts at a, after the white space, and ends before the first position from which
\* white space and a fence follow.  Yields the span <<from, to>> of group 1, or <<>>.
FenceMatchAt(s, p) ==
    LET a == SkipSpace(s, p + Len(JsonFence))
        Closing == {e \in a..(Len(s) + 1) : MatchAt(s, SkipSpace(s, e), Fence)}
    IN  IF MatchAt(s, p, JsonFence) /\ Closing # {} THEN <<a, Min(Closing) - 1>> ELSE <<>>

\* the second alternative at position p: an opening brace, greedy to the last closing brace
BraceMatchAt(s, p) ==
    LET Closing == {e \in (p + 1)..Len(s) : s[e] = "}"} IN
    IF p <= Len(s) /\ s[p] = "{" /\ Closing # {} THEN <<p, Max(Closing)>> ELSE <<>>

\* text.match(pattern) of line 75: the match at the leftmost position where an
\* alternative matches, the fence alternative tried first there.  Yields
\* [found, g1, g2], a group that did not take part being Undefined.
jsonMatch(text) ==
    LET p == MinOr({q \in 1..Len(text) : \/ FenceMatchAt(text, q) # <<>>
                                         \/ BraceMatchAt(text, q) # <<>>}, 0)
        fenced == FenceMatchAt(text, p)
        braced == BraceMatchAt(text, p)
    IN  IF p = 0 THEN [found |-> FALSE, g1 |-> Undefined, g2 |-> Undefined]
        ELSE IF fenced # <<>>
        THEN [found |-> TRUE, g1 |-> Str(Slice(text, fenced[1], fenced[2])), g2 |-> Undefined]
        ELSE [found |-> TRUE, g1 |-> Undefined, g2 |-> Str(Slice(text, braced[1], braced[2]))]

\* lines 79-87 without the try: what JSON.parse throws leaves extractJson
parseJsonStringUncaught(jsonString) ==
    IF ~Truthy(jsonString) THEN Null
    ELSE LET r == JSONparse(trim(jsonString.s)) IN IF r.ok THEN r.v ELSE [t |-> "thrown"]

\* lines 79-87: the group that is parsed, and Null where the code returns null
parseJsonString(jsonString) ==
    IF ~Truthy(jsonString) THEN Null
    ELSE LET r == JSONparse(trim(jsonString.s)) IN IF r.ok THEN r.v ELSE Null

extractJson(text) ==
    IF text = <<>> THEN Null
    ELSE LET jsonMatched == jsonMatch(text) IN
         IF ~jsonMatched.found THEN Null
         ELSE parseJsonString(IF Truthy(jsonMatched.g1) THEN jsonMatched.g1
                              ELSE jsonMatched.g2)

(***************************************************************************)
(* Regular-expression helpers for the patterns of fallbackIntentDetection  *)
(* All of those patterns carry flag i and are written in lower case: they  *)
(* are matched against ls, the lower-cased text, and their spans taken     *)
(* from s, the text itself.                                                *)
(***************************************************************************)
\* (a|b|...) at position p: the first alternative, in the order written, that
\* matches there (0 if none)
AltMatchAt(ls, p, alts) == MinOr({k \in DOMAIN alts : MatchAt(ls, p, alts[k])}, 0)

\* the leftmost match of (a|b|...) in ls: [found, pos, len]
FirstMatch(ls, alts) ==
    LET p == MinOr({q \in DOMAIN ls : AltMatchAt(ls, q, alts) # 0}, 0) IN
    IF p = 0 THEN [found |-> FALSE, pos |-> 0, len |-> 0]
    ELSE [found |-> TRUE, pos |-> p, len |-> Len(alts[AltMatchAt(ls, p, alts)])]

\* regex.test(s) for an unanchored alternation
test(alts, ls) == \E p \in DOMAIN ls : AltMatchAt(ls, p, alts) # 0

\* s.replace(regex, '') for an unanchored alternation without flag g: the first match goes
replaceFirst(s, alts) ==
    LET m == FirstMatch(toLowerCase(s), alts) IN
    IF m.found THEN Slice(s, 1, m.pos - 1) \o Slice(s, m.pos + m.len, Len(s)) ELSE s

\* \b before position p of s
WordBoundary(s, p) ==
    LET
        \* \w of a JavaScript regular expression
        WordChars == LetterSet \cup DigitChars \cup {"_"}
    IN
    (p - 1 >= 1 /\ p - 1 <= Len(s) /\ s[p - 1] \in WordChars)
        # (p >= 1 /\ p <= Len(s) /\ s[p] \in WordChars)

\* the first alternative that matches at p between two word boundaries (0 if none)
WordAltAt(s, ls, p, alts) ==
    MinOr({k \in DOMAIN alts : /\ MatchAt(ls, p, alts[k])
                               /\ WordBoundary(s, p)
                               /\ WordBoundary(s, p + Len(alts[k]))}, 0)

\* s.replace(/\b(?:a|b|...)\b/gi, ''), scanning from position p
RECURSIVE replaceWordsFrom(_, _, _, _)
replaceWordsFrom(s, ls, p, alts) ==
    IF p > Len(s) THEN <<>>
    ELSE IF WordAltAt(s, ls, p, alts) # 0
    THEN replaceWordsFrom(s, ls, p + Len(alts[WordAltAt(s, ls, p, alts)]), alts)
    ELSE <<s[p]>> \o replaceWordsFrom(s, ls, p + 1, alts)
replaceWords(s, alts) == replaceWordsFrom(s, toLowerCase(s), 1, alts)

\* s.replace(/[...]/g, '') for a set of characters
replaceChars(s, chars) == SelectSeq(s, LAMBDA c : c \notin chars)

\* (?:a|b|...)\s+(GROUP)(?:[\.!,?]|$) under flag i, as String.prototype.match finds it.
\* GROUP of the location pattern is [A-Z][A-Za-z\s,.'-]+, which under flag i is a
\* letter followed by one or more characters of the class; GROUP of the topic pattern
\* is [A-Za-z0-9\s,.'-]+.  A group is greedy and gives back characters until a
\* terminator or the end of the text follows.
GroupOk(s, a, e, kind) ==
    LET
        \* [A-Za-z\s,.'-], and with the digits [A-Za-z0-9\s,.'-]
        LocationClass == LetterSet \cup {" ", "\n", "\t", ",", ".", "'", "-"}
    IN
    IF kind = "location"
    THEN /\ e >= a + 1
         /\ s[a] \in LetterSet
         /\ \A k \in (a + 1)..e : s[k] \in LocationClass
    ELSE \A k \in a..e : s[k] \in LocationClass \cup DigitChars

\* the span of the group that starts at a, or <<>>
GroupFrom(s, a, kind) ==
    LET Ends == {e \in a..Len(s) : /\ GroupOk(s, a, e, kind)
                                   /\ (e = Len(s) \/ s[e + 1] \in {".", "!", ",", "?"})}
    IN  IF Ends = {} THEN <<>> ELSE <<a, Max(Ends)>>

\* the group after the white space that follows position q: \s+ is greedy, it takes
\* all the white space, then gives it back one by one
GroupAfterSpace(s, q, kind) ==
    LET Starts == {a \in (q + 1)..SkipSpace(s, q) : GroupFrom(s, a, kind) # <<>>} IN
    IF Starts = {} THEN <<>> ELSE GroupFrom(s, Max(Starts), kind)

\* the span of group 1 of the match that starts at p, or <<>>
PrefixGroupAt(s, ls, p, alts, kind) ==
    IF AltMatchAt(ls, p, alts) = 0 THEN <<>>
    ELSE GroupAfterSpace(s, p + Len(alts[AltMatchAt(ls, p, alts)]), kind)

\* s.match(pattern): group 1 of the leftmost match, Undefined when there is no match
matchGroup(s, alts, kind) ==
    LET ls == toLowerCase(s)
        p == MinOr({q \in DOMAIN s : PrefixGroupAt(s, ls, q, alts, kind) # <<>>}, 0)
        g == PrefixGroupAt(s, ls, p, alts, kind)
    IN  IF p = 0 THEN Undefined ELSE Str(Slice(s, g[1], g[2]))

(***************************************************************************)
(* fallbackIntentDetection (server.js 183-227)                             *)
(***************************************************************************)
weatherKeywords == <<
    <<"w", "e", "a", "t", "h", "e", "r">>,
    <<"f", "o", "r", "e", "c", "a", "s", "t">>,
    <<"t", "e", "m", "p">>,
    <<"t", "e", "m", "p", "e", "r", "a", "t", "u", "r", "e">>,
    <<"r", "a", "i", "n">>,
    <<"s", "n", "o", "w">>,
    <<"s", "t", "o", "r", "m">>,
    <<"c", "l", "i", "m", "a", "t", "e">>,
    <<"a", "l", "e", "r", "t">>,
    <<"a", "l", "e", "r", "t", "s">>,
    <<"w", "i", "n", "d">>,
    <<"h", "u", "m", "i", "d", "i", "t", "y">>,
    <<"s", "u", "n">>,
    <<"c", "l", "o", "u", "d", "y">>,
    <<"c", "o", "n", "d", "i", "t", "i", "o", "n">>,
    <<"c", "o", "n", "d", "i", "t", "i", "o", "n", "s">> >>

newsKeywords == <<
    <<"n", "e", "w", "s">>,
    <<"h", "e", "a", "d", "l", "i", "n", "e">>,
    <<"h", "e", "a", "d", "l", "i", "n", "e", "s">>,
    <<"a", "r", "t", "i", "c", "l", "e">>,
    <<"a", "r", "t", "i", "c", "l", "e", "s">>,
    <<"u", "p", "d", "a", "t", "e">>,
    <<"u", "p", "d", "a", "t", "e", "s">>,
    <<"b", "r", "e", "a", "k", "i", "n", "g">>,
    <<"l", "a", "t", "e", "s", "t">>,
    <<"t", "o", "d", "a", "y", "'", "s">>,
    <<"r", "e", "p", "o", "r", "t">>,
    <<"c", "u", "r", "r", "e", "n", "t">>,
    <<"d", "e", "v", "e", "l", "o", "p", "m", "e", "n", "t", "s">> >>

weatherStopPhrases == <<
    <<"w", "h", "a", "t", " ", "i", "s">>,
    <<"w", "h", "a", "t", "'", "s">>,
    <<"h", "o", "w", " ", "i", "s">>,
    <<"h", "o", "w", "'", "s">>,
    <<"t", "e", "l", "l", " ", "m", "e", " ", "a", "b", "o", "u", "t">>,
    <<"a", "b", "o", "u", "t">>,
    <<"t", "h", "e">>,
    <<"g", "e", "t", " ", "m", "e", " ", "t", "h", "e">> >>

s_weather == <<"w", "e", "a", "t", "h", "e", "r">>
s_news == <<"n", "e", "w", "s">>
s_general == <<"g", "e", "n", "e", "r", "a", "l">>

\* a || b on strings
orElse(a, b) == IF a # <<>> THEN a ELSE b

\* lines 197-199 and 213-215: the slot taken from the match of the pattern
slotFromMatch(m) == IF Truthy(m) THEN replaceChars(trim(m.s), {"'", "."}) ELSE <<>>

\* lines 201-207: the location taken from what is left of the message
locationFromCleaned(cleaned) ==
    IF cleaned # <<>> /\ cleaned[1] \in Range(UpperChars) THEN replaceChars(cleaned, {"'", "."}) ELSE <<>>

\* fallbackLocation without the pattern of lines 196-199: only what is left of the message
fallbackLocationWithoutPattern(userMessage) ==
    locationFromCleaned(trim(replaceWords(replaceFirst(userMessage, weatherKeywords),
                                          weatherStopPhrases)))

fallbackLocation(userMessage) ==
    LET
        locationPrefixes == <<
            <<"i", "n">>,
            <<"f", "o", "r">>,
            <<"a", "t">>,
            <<"w", "e", "a", "t", "h", "e", "r">>,
            <<"h", "o", "w", " ", "i", "s", " ", "t", "h", "e">>,
            <<"w", "h", "a", "t", " ", "i", "s", " ", "t", "h", "e">>,
            <<"s", "h", "o", "w", " ", "m", "e", " ", "t", "h", "e">> >>
    IN
    orElse(slotFromMatch(matchGroup(userMessage, locationPrefixes, "location")),
           locationFromCleaned(trim(replaceWords(replaceFirst(userMessage, weatherKeywords),
                                                 weatherStopPhrases))))

fallbackTopic(userMessage) ==
    LET
        \* lines 217-222: the topic taken from what is left of the message
        topicFromCleaned(cleaned) == IF cleaned # <<>> THEN replaceChars(cleaned, {"'", "."}) ELSE <<>>
        newsStopPhrases == <<
            <<"a", "b", "o", "u", "t">>,
            <<"o", "n">>,
            <<"r", "e", "g", "a", "r", "d", "i", "n", "g">>,
            <<"o", "f">>,
            <<"f", "o", "r">>,
            <<"t", "h", "e">>,
            <<"l", "a", "t", "e", "s", "t">>,
            <<"t", "o", "p">>,
            <<"g", "e", "t", " ", "m", "e">> >>
        topicPrefixes == <<
            <<"a", "b", "o", "u", "t">>,
            <<"o", "n">>,
            <<"r", "e", "g", "a", "r", "d", "i", "n", "g">>,
            <<"o", "f">>,
            <<"n", "e", "w", "s">>,
            <<"h", "e", "a", "d", "l", "i", "n", "e", "s">>,
            <<"l", "a", "t", "e", "s", "t">>,
            <<"u", "p", "d", "a", "t", "e", "s">> >>
    IN
    orElse(slotFromMatch(matchGroup(userMessage, topicPrefixes, "topic")),
           topicFromCleaned(trim(replaceWords(replaceFirst(userMessage, newsKeywords),
                                              newsStopPhrases))))

Classification(intent, location, topic) ==
    [intent |-> Str(intent), location |-> Str(location), topic |-> Str(topic)]

\* fallbackIntentDetection with the news keywords tested before the weather keywords
fallbackNewsFirst(userMessage) ==
    IF test(newsKeywords, toLowerCase(userMessage))
    THEN Classification(s_news, <<>>, fallbackTopic(userMessage))
    ELSE IF test(weatherKeywords, toLowerCase(userMessage))
    THEN Classification(s_weather, fallbackLocation(userMessage), <<>>)
    ELSE Classification(s_general, <<>>, <<>>)

fallbackIntentDetection(userMessage) ==
    IF test(weatherKeywords, toLowerCase(userMessage))
    THEN Classification(s_weather, fallbackLocation(userMessage), <<>>)
    ELSE IF test(newsKeywords, toLowerCase(userMessage))
    THEN Classification(s_news, <<>>, fallbackTopic(userMessage))
    ELSE Classification(s_general, <<>>, <<>>)

(***************************************************************************)
(* Module configuration (server.js 24-30), read from the environment       *)
(***************************************************************************)
DEFAULT_GEMINI_MODEL == "gemini-2.5-flash"

\* process.env: GEMINI_MODEL is "" and DISABLE_GEMINI is <<>> when unset; a key is
\* TRUE when it is set
Environments ==
    [GEMINI_MODEL : {"", "gemini-2.0-flash", "gemini-1.5-pro"},
     GEMINI_API_KEY : BOOLEAN, WEATHER_API_KEY : BOOLEAN, NEWS_API_KEY : BOOLEAN,
     DISABLE_GEMINI : {<<>>, <<"T", "R", "U", "E">>}]

\* the model constant without the override of the environment
GEMINI_MODELWithoutOverride(e) == DEFAULT_GEMINI_MODEL

GEMINI_MODEL(e) == IF e.GEMINI_MODEL # "" THEN e.GEMINI_MODEL ELSE DEFAULT_GEMINI_MODEL
\* the kill switch compared without toLowerCase
DISABLE_GEMINIasWritten(e) == e.DISABLE_GEMINI = <<"t", "r", "u", "e">>

DISABLE_GEMINI(e) ==
    toLowerCase(IF e.DISABLE_GEMINI # <<>> THEN e.DISABLE_GEMINI ELSE <<"f", "a", "l", "s", "e">>)
        = <<"t", "r", "u", "e">>

(***************************************************************************)
(* Errors and the outcomes of an outbound http.post to the model service   *)
(***************************************************************************)
NoError == [message |-> "", status |-> 0, code |-> ""]
Error(message) == [message |-> message, status |-> 0, code |-> ""]
\* an axios error: status 0 when no response was received
AxiosError(status, code) == [message |-> "Request failed", status |-> status, code |-> code]

\* a response (2xx) with its data, or a rejection with an axios error
Response(candidates, blockReason, finishReason, text) ==
    [ok |-> TRUE, candidates |-> candidates, blockReason |-> blockReason,
     finishReason |-> finishReason, text |-> text, error |-> NoError]
Rejection(error) ==
    [ok |-> FALSE, candidates |-> FALSE, blockReason |-> "", finishReason |-> "",
     text |-> <<>>, error |-> error]

(***************************************************************************)
(* callGemini (server.js 93-178)                                           *)
(***************************************************************************)
\* a candidate list with a third candidate after the fixed fallback
modelsToTryThree(model) == <<model, "gemini-2.0-flash", "gemini-1.5-flash">>

\* lines 99-105: the candidate list
\* a candidate list built without the includes test of line 105
modelsToTryAppendsAlways(model) == <<model, "gemini-2.0-flash">>

modelsToTry(model) ==
    LET primary == IF model # "" THEN <<model>> ELSE <<>> IN
    IF "gemini-2.0-flash" \notin Range(primary) THEN Append(primary, "gemini-2.0-flash")
    ELSE primary

\* a retry test that lets every failure through to the next candidate
retriableWhatever(error) == error.status >= 0

\* line 171
retriable(error) ==
    \/ error.status = 429
    \/ error.status = 500
    \/ error.status = 503
    \/ error.code = "ECONNABORTED"

\* lines 112-174: one iteration of the loop on the outcome of its http.post; what the
\* iteration ends with (return, continue to the next candidate, break) and lastError
Ends(end, text, lastError) == [end |-> end, text |-> text, lastError |-> lastError]
attempt(outcome) ==
    IF outcome.ok THEN
        IF ~outcome.candidates THEN
            IF outcome.blockReason # ""
            THEN Ends("continue", <<>>, Error("Gemini request blocked"))
            ELSE Ends("continue", <<>>, Error("No candidates in Gemini response"))
        ELSE IF outcome.finishReason = "SAFETY"
            THEN Ends("continue", <<>>, Error("Gemini response blocked due to safety settings"))
        ELSE IF outcome.text # <<>>
            THEN Ends("return", outcome.text, NoError)
        ELSE Ends("continue", <<>>, Error("Empty text content from Gemini response"))
    ELSE IF retriable(outcome.error)
        THEN Ends("continue", <<>>, outcome.error)
    ELSE Ends("break", <<>>, outcome.error)

\* One invocation of callGemini: st is idle, awaiting (the http.post of candidate i is
\* in flight), returned or thrown; calls are the candidates posted to so far, in order.
IdleFrame ==
    [st |-> "idle", model |-> "", modelsToTry |-> <<>>, i |-> 0, lastError |-> NoError,
     calls |-> <<>>, text |-> <<>>, error |-> NoError]

\* lines 93-113: from the call to the first http.post
callGeminiEnter(e, model) ==
    IF ~e.GEMINI_API_KEY
    THEN [IdleFrame EXCEPT !.st = "thrown", !.model = model,
                           !.error = Error("Missing GEMINI_API_KEY environment variable")]
    ELSE [IdleFrame EXCEPT !.st = "awaiting", !.model = model,
                           !.modelsToTry = modelsToTry(model), !.i = 1,
                           !.calls = <<modelsToTry(model)[1]>>]

\* lines 176-177
throwAfterLoop(lastError) ==
    IF lastError # NoError THEN lastError
    ELSE Error("Gemini call failed after trying all fallbacks")

\* the loop without the return of line 150: usable text does not end it while a
\* candidate remains
afterAttemptGoesOn(f, a) ==
    IF a.end = "return" /\ f.i = Len(f.modelsToTry)
    THEN [f EXCEPT !.st = "returned", !.text = a.text]
    ELSE IF a.end \in {"return", "continue"} /\ f.i < Len(f.modelsToTry)
    THEN [f EXCEPT !.lastError = a.lastError, !.i = f.i + 1,
                   !.calls = Append(f.calls, f.modelsToTry[f.i + 1])]
    ELSE [f EXCEPT !.lastError = a.lastError, !.st = "thrown",
                   !.error = throwAfterLoop(a.lastError)]

\* the loop keeping the first error it saw in lastError
firstError(f, a) == IF f.lastError # NoError THEN f.lastError ELSE a.lastError
afterAttemptKeepsFirstError(f, a) ==
    IF a.end = "return"
    THEN [f EXCEPT !.st = "returned", !.text = a.text]
    ELSE IF a.end = "continue" /\ f.i < Len(f.modelsToTry)
    THEN [f EXCEPT !.lastError = firstError(f, a), !.i = f.i + 1,
                   !.calls = Append(f.calls, f.modelsToTry[f.i + 1])]
    ELSE [f EXCEPT !.lastError = firstError(f, a), !.st = "thrown",
                   !.error = throwAfterLoop(firstError(f, a))]

\* lines 109-178: the iteration of candidate i ends as a says
afterAttempt(f, a) ==
    IF a.end = "return"
    THEN [f EXCEPT !.st = "returned", !.text = a.text]
    ELSE IF a.end = "continue" /\ f.i < Len(f.modelsToTry)
    THEN [f EXCEPT !.lastError = a.lastError, !.i = f.i + 1,
                   !.calls = Append(f.calls, f.modelsToTry[f.i + 1])]
    ELSE [f EXCEPT !.lastError = a.lastError, !.st = "thrown",
                   !.error = throwAfterLoop(a.lastError)]

\* lines 109-178: the http.post of candidate i settles with outcome
callGeminiSettle(f, outcome) == afterAttempt(f, attempt(outcome))

(***************************************************************************)
(* Helpers of the handlers                                                 *)
(***************************************************************************)
\* raw.trim().replace(<a fence around the whole text>, '$1').trim() (lines 378, 667):
\* a text that opens with a fence line and closes with a line holding a fence loses both
unfence(s) ==
    LET f == Len(s) - 3
        Heads == {h \in 4..(f - 1) : s[h] = "\n"}
    IN  IF MatchAt(s, 1, Fence) /\ MatchAt(s, f, <<"\n", BQ, BQ, BQ>>) /\ Heads # {}
        THEN trim(Slice(s, Min(Heads) + 1, f - 1))
        ELSE s
stripFence(raw) == unfence(trim(raw))

\* text.split(/\s+/) of a text, from position p, cur the token being read
RECURSIVE splitSpace(_, _, _)
splitSpace(s, p, cur) ==
    IF p > Len(s) THEN <<cur>>
    ELSE IF IsSpace(s[p])
         THEN IF p > 1 /\ IsSpace(s[p - 1]) THEN splitSpace(s, p + 1, cur)
              ELSE <<cur>> \o splitSpace(s, p + 1, <<>>)
         ELSE splitSpace(s, p + 1, Append(cur, s[p]))

\* tokens.join(' ')
RECURSIVE joinSpace(_)
joinSpace(tokens) ==
    IF tokens = <<>> THEN <<>>
    ELSE IF Len(tokens) = 1 THEN tokens[1]
    ELSE tokens[1] \o <<" ">> \o joinSpace(Tail(tokens))

\* extractNewsKeywords (server.js 346-360)
blacklist == {
    <<"n", "e", "w", "s">>,
    <<"h", "e", "a", "d", "l", "i", "n", "e">>,
    <<"h", "e", "a", "d", "l", "i", "n", "e", "s">>,
    <<"t", "o", "p">>,
    <<"l", "a", "t", "e", "s", "t">>,
    <<"g", "e", "t">>,
    <<"m", "e">>,
    <<"w", "h", "a", "t">>,
    <<"i", "s">>,
    <<"a", "r", "e">>,
    <<"t", "h", "e">>,
    <<"a">>,
    <<"a", "n">>,
    <<"t", "o">>,
    <<"a", "n", "d">>,
    <<"o", "r">>,
    <<"u", "s">>,
    <<"u", "s", "a">>,
    <<"a", "b", "o", "u", "t">>,
    <<"o", "n">>,
    <<"r", "e", "g", "a", "r", "d", "i", "n", "g">>,
    <<"o", "f">>,
    <<"i", "n">>,
    <<"f", "o", "r">>,
    <<"t", "e", "l", "l">>,
    <<"g", "i", "v", "e">>,
    <<"u", "p", "d", "a", "t", "e", "s">>,
    <<"u", "p", "d", "a", "t", "e">>,
    <<"c", "u", "r", "r", "e", "n", "t">>,
    <<"b", "r", "e", "a", "k", "i", "n", "g">>,
    <<"a", "r", "t", "i", "c", "l", "e">>,
    <<"a", "r", "t", "i", "c", "l", "e", "s">>,
    <<"i", "n", "f", "o", "r", "m", "a", "t", "i", "o", "n">>,
    <<"s", "u", "m", "m", "a", "r", "y">>,
    <<"d", "e", "t", "a", "i", "l", "s">> }

KeptKeywords == 5

\* the filter of line 357 without the blacklist
isKeywordAnyWord(w) ==
    /\ w # <<>>
    /\ Len(w) > 2
    /\ \E i \in DOMAIN w : w[i] \notin DigitChars

\* lines 353-355: the tokens that are kept
isKeyword(w) ==
    /\ w # <<>>
    /\ w \notin blacklist
    /\ Len(w) > 2
    /\ \E i \in DOMAIN w : w[i] \notin DigitChars

extractNewsKeywords(text) ==
    LET
        \* line 350: what is no lower-case letter, digit, white space or hyphen becomes a space
        unpunctuate(lower) ==
            [i \in DOMAIN lower |->
                IF lower[i] \in Range(LowerChars) \cup DigitChars \cup {"-", " ", "\n", "\t"}
                THEN lower[i] ELSE " "]
    IN
    IF text = <<>> THEN <<>>
    ELSE LET words == SelectSeq(splitSpace(unpunctuate(toLowerCase(text)), 1, <<>>), isKeyword)
         IN  joinSpace(SubSeq(words, 1, Min({Len(words), KeptKeywords})))

(***************************************************************************)
(* The inputs: request messages and what the upstream services answer      *)
(***************************************************************************)
\* the message property of the request body: absent, a string, or another JSON value
MaxMessages == 8
AllMessages == <<
    Undefined,
    Str(<<>>),
    Str(<<"W", "h", "a", "t", "'", "s", " ", "t", "h", "e", " ", "w", "e", "a", "t", "h", "e", "r", " ", "i", "n", " ", "T", "o", "k", "y", "o", "?">>),
    Str(<<"n", "e", "w", "s", " ", "a", "b", "o", "u", "t", " ", "e", "l", "e", "c", "t", "r", "i", "c", " ", "v", "e", "h", "i", "c", "l", "e", "s">>),
    Str(<<"h", "e", "l", "l", "o">>),
    Num(5),
    Str(<<"t", "r", "a", "i", "n", " ", "u", "p", "d", "a", "t", "e">>),
    Str(<<"w", "i", "l", "l", " ", "i", "t", " ", "r", "a", "i", "n">>),
    Str(<<"I", " ", "f", "e", "e", "l", " ", "l", "o", "w">>) >>
Messages ==
    {AllMessages[i] : i \in 1..(IF MaxMessages < Len(AllMessages) THEN MaxMessages
                                ELSE Len(AllMessages))}

\* texts the model returns for the classification prompt of detectIntent
MaxIntentTexts == 9
AllIntentTexts == <<
    <<"{", "\"", "i", "n", "t", "e", "n", "t", "\"", ":", " ", "\"", "s", "p", "o", "r", "t", "s", "\"", "}">>,
    <<"I", " ", "a", "m", " ", "n", "o", "t", " ", "s", "u", "r", "e", ".">>,
    <<"{", "\"", "i", "n", "t", "e", "n", "t", "\"", ":", " ", "7", "}">>,
    <<BQ, BQ, BQ, "j", "s", "o", "n", "\n", "{", "\"", "i", "n", "t", "e", "n", "t", "\"", ":", " ", "\"", "w", "e", "a", "t", "h", "e", "r", "\"", ",", " ", "\"", "l", "o", "c", "a", "t", "i", "o", "n", "\"", ":", " ", "\"", "P", "a", "r", "i", "s", "\"", "}", "\n", BQ, BQ, BQ>>,
    <<"{", "\"", "i", "n", "t", "e", "n", "t", "\"", ":", " ", "\"", "N", "e", "w", "s", "\"", ",", " ", "\"", "t", "o", "p", "i", "c", "\"", ":", " ", "\"", "a", "i", "\"", "}">>,
    <<"{", "\"", "l", "o", "c", "a", "t", "i", "o", "n", "\"", ":", " ", "\"", "R", "o", "m", "e", "\"", "}">>,
    <<"{", "\"", "i", "n", "t", "e", "n", "t", "\"", ":", " ", "\"", " ", "W", "e", "a", "t", "h", "e", "r", " ", "\"", ",", " ", "\"", "l", "o", "c", "a", "t", "i", "o", "n", "\"", ":", " ", "\"", "O", "s", "l", "o", "\"", "}">>,
    <<"{", "\"", "i", "n", "t", "e", "n", "t", "\"", ":", " ", "\"", "n", "e", "w", "s", "\"", ",", " ", "\"", "t", "o", "p", "i", "c", "\"", ":", " ", "\"", "L", "a", "t", "e", "s", "t", " ", "A", "I", " ", "c", "h", "i", "p", "s", " ", "f", "r", "o", "m", " ", "b", "i", "g", " ", "t", "e", "c", "h", " ", "f", "i", "r", "m", "s", " ", "t", "o", "d", "a", "y", "\"", "}">>,
    <<"{", "\"", "i", "n", "t", "e", "n", "t", "\"", ":", " ", "\"", "n", "e", "w", "s", "\"", ",", " ", "\"", "t", "o", "p", "i", "c", "\"", ":", " ", "7", "}">>,
    <<"{", "\"", "i", "n", "t", "e", "n", "t", "\"", ":", " ", "\"", "g", "e", "n", "e", "r", "a", "l", "\"", "}">> >>
IntentTexts ==
    {AllIntentTexts[i] : i \in 1..(IF MaxIntentTexts < Len(AllIntentTexts) THEN MaxIntentTexts
                                   ELSE Len(AllIntentTexts))}

Purposes == {"intent", "news", "sarcasm", "sentiment", "gita", "final"}

\* the texts the model returns for the prompt of each caller
TextsFor(p) ==
    CASE p = "intent" -> IntentTexts
      [] p = "news" -> {
    <<"E", "V", " ", "s", "a", "l", "e", "s", " ", "r", "o", "s", "e", ".">>,
    <<"I", " ", "c", "a", "n", "n", "o", "t", " ", "f", "u", "l", "f", "i", "l", "l", " ", "t", "h", "i", "s", ".">> }
      [] p = "sarcasm" -> {
    <<"{", "\"", "i", "s", "_", "s", "a", "r", "c", "a", "s", "t", "i", "c", "\"", ":", " ", "t", "r", "u", "e", "}">>,
    <<"n", "o">> }
      [] p = "sentiment" -> {
    <<"{", "\"", "i", "s", "_", "l", "o", "w", "_", "m", "o", "o", "d", "\"", ":", " ", "t", "r", "u", "e", "}">>,
    <<"{", "\"", "i", "s", "_", "l", "o", "w", "_", "m", "o", "o", "d", "\"", ":", " ", "f", "a", "l", "s", "e", "}">>,
    <<"f", "i", "n", "e">> }
      [] p = "gita" -> {
    <<"{", "\"", "m", "e", "a", "n", "i", "n", "g", "\"", ":", " ", "\"", "p", "e", "a", "c", "e", "\"", "}">>,
    <<BQ, BQ, BQ, "j", "s", "o", "n", "\n", "0", "\n", BQ, BQ, BQ>>,
    <<"n", "o", "n", "e">> }
      [] p = "final" -> {
    <<"H", "i", "!">>,
    <<BQ, BQ, BQ, "\n", "H", "i", "!", "\n", BQ, BQ, BQ>>,
    <<" ">> }
      [] OTHER -> {<<"o", "k">>}

\* the ways a call to the model service fails to give text
\* answers with text: generation stopped normally, at the token limit, or for another reason
TextResponses(texts) ==
    {Response(TRUE, "", fr, t) : fr \in {"STOP"}, t \in texts}
AllOutcomes(texts) ==
    LET
        UnusableResponses ==
            { Response(FALSE, "SAFETY", "", <<>>),
              Response(FALSE, "", "", <<>>),
              Response(TRUE, "", "SAFETY", <<>>),
              Response(TRUE, "", "STOP", <<>>) }
        HttpFailures ==
            {Rejection(AxiosError(st, "ERR_BAD_REQUEST")) : st \in {400, 401, 403, 404, 429}}
            \cup {Rejection(AxiosError(st, "ERR_BAD_RESPONSE")) : st \in {500, 502, 503, 504}}
            \cup {Rejection(AxiosError(0, c)) : c \in {"ECONNABORTED", "ECONNRESET"}}
    IN
    HttpFailures \cup UnusableResponses \cup TextResponses(texts)
    \cup {Response(TRUE, "", fr, <<"o", "k">>) : fr \in {"MAX_TOKENS", "RECITATION"}}
\* the outcomes a call made while a /chat request is processed draws from
ChatOutcomes(p) ==
    { Rejection(AxiosError(503, "ERR_BAD_RESPONSE")),
      Rejection(AxiosError(400, "ERR_BAD_REQUEST")),
      Response(FALSE, "SAFETY", "", <<>>) }
    \cup TextResponses(TextsFor(p))

(***************************************************************************)
(* detectIntent (server.js 233-263)                                        *)
(***************************************************************************)
k_intent == <<"i", "n", "t", "e", "n", "t">>
k_topic == <<"t", "o", "p", "i", "c">>

\* The texts a /chat request can meet are finitely many: the functions of the source
\* that read them are evaluated on each of them once.
\* the texts the model service returns to any caller
ModelTexts == UNION {TextsFor(p) : p \in Purposes \cup {"direct"}}
\* the request messages that are strings
MessageTexts == {AllMessages[i].s : i \in {j \in DOMAIN AllMessages : AllMessages[j].t = "string"}}

\* extractJson (lines 72-88) and the fence stripping of lines 378 and 667 on the
\* model's texts, fallbackIntentDetection (lines 183-227) on the messages
Computed ==
    [extractJson |-> [t \in ModelTexts |-> extractJson(t)],
     stripFence |-> [t \in ModelTexts |-> stripFence(t)],
     fallbackIntentDetection |-> [m \in MessageTexts |-> fallbackIntentDetection(m)]]

Returns(result) == [end |-> "return", result |-> result]
Throws == [end |-> "throws", result |-> Undefined]

\* lines 248-255 on what extractJson made of the text: the classification returned at
\* line 249, FallsBack when line 262 is reached, or Throws (caught at line 258) when
\* parsed.intent has no method toLowerCase
classifyParsed(parsed) ==
    LET
        FallsBack == [end |-> "fallback", result |-> Undefined]
        k_location == <<"l", "o", "c", "a", "t", "i", "o", "n">>
    IN
    IF Truthy(parsed) /\ Truthy(Get(parsed, k_intent))
    THEN IF Get(parsed, k_intent).t # "string" THEN Throws
         ELSE Returns([intent |-> Str(toLowerCase(Get(parsed, k_intent).s)),
                       location |-> Coalesce(Get(parsed, k_location), Str(<<>>)),
                       topic |-> Coalesce(Get(parsed, k_topic), Str(<<>>))])
    ELSE FallsBack

\* fallbackIntentDetection called with the request's message: a message that is no
\* string has no method toLowerCase (line 184) and the call throws
fallbackOf(message) ==
    IF message.t = "string" THEN Returns(Computed.fallbackIntentDetection[message.s])
    ELSE Throws

\* line 262 unless line 249 returned
orFallback(c, message) == IF c.end = "return" THEN c ELSE fallbackOf(message)

\* detectIntent without the try of line 243: what callGemini throws escapes
detectIntentResumeUncaught(f, message) ==
    IF f.st = "returned"
    THEN orFallback(classifyParsed(Computed.extractJson[f.text]), message)
    ELSE Throws

\* lines 243-262 once callGemini has settled in frame f
detectIntentResume(f, message) ==
    orFallback(IF f.st = "returned" THEN classifyParsed(Computed.extractJson[f.text])
               ELSE Throws,
               message)

(***************************************************************************)
(* State                                                                   *)
(***************************************************************************)
VARIABLES
    env,            \* process.env as read at lines 26-30
    message,        \* req.body.message of the /chat request
    pc,             \* where the request handler stands (the await it is suspended at)
    inv,            \* the callGemini invocation of each caller
    transport,      \* what the model service answered to a direct invocation, in order
    classification, \* what detectIntent resolved to
    tasks,          \* the promises sarcasmTask and sentimentTask of handleGeneralResponse
    sarcastic,      \* sarcasmResult?.is_sarcastic, as used at line 645
    news,           \* derivedKeywords and hasSpecificKeywords of handleNews
    reply,          \* what the handler resolved to
    response,       \* the HTTP response sent
    outbound,       \* the outbound calls made: to the model service (a count), and the
                    \* queries sent to the weather and the headlines service
    input,          \* the text a call of extractJson on its own is given
    extracted,      \* what that call returned
    parked,         \* the /chat request that is suspended while another one runs
    chatHistory,    \* the chat UI: the entries shown, questions and answers
    question,       \* the chat UI: the text of the input box
    answer,         \* the chat UI: the last answer set
    generatingAnswer, \* the chat UI: whether the Thinking indicator shows
    requests,       \* the chat UI: the calls of generateAnswer past their await, in order
    origin          \* history: for each entry of chatHistory, the call that appended it

\* the variables the steps of a /chat request neither read nor write
ui == <<chatHistory, question, answer, generatingAnswer, requests, origin>>
aside == <<input, extracted, parked, ui>>

vars == <<env, message, pc, inv, transport, classification, tasks, sarcastic, news,
          reply, response, outbound, aside>>

Pending == [t |-> "pending"]
NoClassification == [intent |-> Undefined, location |-> Undefined, topic |-> Undefined]
NoReply == [kind |-> "none", text |-> <<>>, detail |-> <<>>]
Reply(kind, text, detail) == [kind |-> kind, text |-> text, detail |-> detail]
NoResponse == [status |-> 0, body |-> <<>>]

Settled(f) == f.st \in {"returned", "thrown"}
\* the http.post calls a frame adds when it goes from f to g
Posts(f, g) == Len(g.calls) - Len(f.calls)

InitCommon ==
    /\ inv = [p \in Purposes \cup {"direct"} |-> IdleFrame]
    /\ transport = <<>>
    /\ classification = NoClassification
    /\ tasks = [sarcasm |-> Pending, sentiment |-> Pending]
    /\ sarcastic = FALSE
    /\ news = [derivedKeywords |-> <<>>, hasSpecificKeywords |-> FALSE]
    /\ reply = NoReply
    /\ response = NoResponse
    /\ outbound = [gemini |-> 0, weather |-> <<>>, news |-> <<>>]

\* the chat UI as App first renders it (App.jsx 35-38)
InitUi ==
    /\ chatHistory = <<>>
    /\ question = <<>>
    /\ answer = <<>>
    /\ generatingAnswer = FALSE
    /\ requests = <<>>
    /\ origin = <<>>

\* no call of extractJson on its own, no second request, the chat UI not used
InitAside ==
    /\ InitUi
    /\ input = <<>>
    /\ extracted = Pending
    /\ parked = <<>>

Init ==
    /\ env \in Environments
    /\ message \in Messages
    /\ pc = "idle"
    /\ InitCommon
    /\ InitAside

(***************************************************************************)
(* The callGemini invocations of the callers                               *)
(***************************************************************************)
\* the invocation of caller p becomes g; the http.post calls that adds are counted
SetFrame(p, g) ==
    /\ inv' = [inv EXCEPT ![p] = g]
    /\ outbound' = [outbound EXCEPT !.gemini = @ + Posts(inv[p], g)]

\* caller p calls callGemini(prompt, model)
Invoke(p, model) == SetFrame(p, callGeminiEnter(env, model))

\* the http.post of the invocation of caller p settles
HttpPostSettles(p) ==
    /\ inv[p].st = "awaiting"
    /\ \E outcome \in ChatOutcomes(p) : SetFrame(p, callGeminiSettle(inv[p], outcome))
    /\ UNCHANGED <<aside, env, message, pc, transport, classification, tasks, sarcastic, news,
                   reply, response>>

(***************************************************************************)
(* POST /chat (server.js 679-714)                                          *)
(***************************************************************************)
Fault(status, error) == [status |-> status, body |-> [error |-> error]]
GenericFault == Fault(500, "Sorry, something went wrong while processing your request.")

\* lines 704-713: what the endpoint answers when error escapes to its catch
catchInChat(error) ==
    IF error.message = "Missing GEMINI_API_KEY environment variable"
    THEN Fault(500, "Server configuration error: AI service key is missing.")
    ELSE GenericFault

\* line 690 and after: detectIntent resolved to c.result, or threw into the catch of line 704
Classified(c) ==
    IF c.end = "return"
    THEN classification' = c.result /\ pc' = "dispatch" /\ UNCHANGED response
    ELSE /\ response' = catchInChat(Error("userMessage.toLowerCase is not a function"))
         /\ pc' = "done"
         /\ UNCHANGED classification

\* lines 679-688 and, inside detectIntent, lines 234-246: up to the first await
ChatPost ==
    /\ pc = "idle"
    /\ IF ~Truthy(message)
       THEN /\ response' = Fault(400, "Message is required.")
            /\ pc' = "done"
            /\ UNCHANGED <<inv, classification, outbound>>
       ELSE IF ~DISABLE_GEMINI(env)
       THEN /\ Invoke("intent", "gemini-2.5-flash")
            /\ pc' = "detectIntent"
            /\ UNCHANGED <<classification, response>>
       ELSE /\ Classified(fallbackOf(message))
            /\ UNCHANGED <<inv, outbound>>
    /\ UNCHANGED <<aside, env, message, transport, tasks, sarcastic, news, reply>>

\* detectIntent resumes after await callGemini (lines 246-262)
DetectIntentResumes ==
    /\ pc = "detectIntent"
    /\ Settled(inv["intent"])
    /\ Classified(detectIntentResume(inv["intent"], message))
    /\ inv' = [inv EXCEPT !["intent"] = IdleFrame]
    /\ UNCHANGED <<aside, env, message, transport, tasks, sarcastic, news, reply, outbound>>

(***************************************************************************)
(* handleWeather (server.js 269-340)                                       *)
(***************************************************************************)
\* what the forecast service answers: data with or without its parts, or an error status
WeatherOutcomes ==
    { [ok |-> TRUE, status |-> 200, name |-> TRUE, current |-> "full",
       localtime |-> TRUE, astro |-> TRUE],
      [ok |-> TRUE, status |-> 200, name |-> FALSE, current |-> "bare",
       localtime |-> FALSE, astro |-> FALSE],
      [ok |-> TRUE, status |-> 200, name |-> TRUE, current |-> "absent",
       localtime |-> TRUE, astro |-> TRUE] }
    \cup {[ok |-> FALSE, status |-> st, name |-> FALSE, current |-> "absent",
           localtime |-> FALSE, astro |-> FALSE] : st \in {400, 500}}

Returned(r) == [end |-> "return", reply |-> r]

\* handleWeather without the test of line 274
handleWeatherEnterAnyLocation(e, location) ==
    IF ~e.WEATHER_API_KEY THEN Returned(Reply("weather_not_configured", <<>>, <<>>))
    ELSE [end |-> "await", reply |-> NoReply]

\* lines 270-289: up to the http.get; end is "await" when the request goes out
handleWeatherEnter(e, location) ==
    IF ~e.WEATHER_API_KEY THEN Returned(Reply("weather_not_configured", <<>>, <<>>))
    ELSE IF ~Truthy(location) THEN Returned(Reply("weather_need_location", <<>>, <<>>))
    ELSE [end |-> "await", reply |-> NoReply]

\* handleWeather with a catch that does not look at the status
handleWeatherSettleGeneric(location, o) ==
    IF ~o.ok \/ o.current = "absent" THEN Reply("weather_issue", <<>>, <<>>)
    ELSE Reply("weather_report", <<>>, [location |-> location])

\* lines 291-339 on the outcome of the http.get for location; in the report of lines
\* 300-327 field is what the fields of current render as
handleWeatherSettle(location, o) ==
    IF ~o.ok
    THEN IF o.status = 400
         THEN Reply("weather_location_not_found", <<>>, [location |-> location])
         ELSE Reply("weather_issue", <<>>, <<>>)
    ELSE IF o.current = "absent"
    THEN Reply("weather_issue", <<>>, <<>>)
    ELSE LET field == IF o.current = "full" THEN "value" ELSE "N/A" IN
         Reply("weather_report", <<>>,
               [locationName |-> IF o.name THEN "upstream" ELSE "requested",
                location |-> location,
                timeInfo |-> IF o.localtime THEN "value" ELSE "omitted",
                condition |-> field, temp |-> field, feelsLike |-> field,
                humidity |-> field, wind |-> field,
                sunrise |-> IF o.astro THEN "value" ELSE "N/A",
                sunset |-> IF o.astro THEN "value" ELSE "N/A"])

(***************************************************************************)
(* handleNews (server.js 362-484)                                          *)
(***************************************************************************)
MaxArticles == 2
\* what the headlines service answers: a number of articles, or an error
NewsOutcomes ==
    {[ok |-> TRUE, articles |-> n, code |-> ""] : n \in 0..MaxArticles}
    \cup {[ok |-> FALSE, articles |-> 0, code |-> c] : c \in {"rateLimited", "other"}}

\* lines 376-392 once callGemini has settled in frame f: the direct answer returned at
\* line 383, or FallsThrough to the headlines search
handleNewsAnswer(f) ==
    LET
        FallsThrough == [end |-> "fallthrough", reply |-> NoReply]
        cannotFulfill == <<"c", "a", "n", "n", "o", "t", " ", "f", "u", "l", "f", "i", "l", "l">>
    IN
    IF f.st # "returned" THEN FallsThrough
    ELSE LET cleaned == Computed.stripFence[f.text] IN
         IF cleaned # <<>> /\ ~includes(toLowerCase(cleaned), cannotFulfill)
         THEN Returned(Reply("news_answer", cleaned, <<>>))
         ELSE FallsThrough

\* lines 400-416: the first query
firstQuery(derivedKeywords) ==
    [end |-> "await",
     derivedKeywords |-> derivedKeywords,
     hasSpecificKeywords |-> Len(derivedKeywords) > 0,
     request |-> IF Len(derivedKeywords) > 0
                 THEN [endpoint |-> "everything", q |-> derivedKeywords, category |-> ""]
                 ELSE [endpoint |-> "top-headlines", q |-> <<>>, category |-> "general"]]

QueryThrows ==
    [end |-> "throws", derivedKeywords |-> <<>>, hasSpecificKeywords |-> FALSE,
     request |-> [endpoint |-> "", q |-> <<>>, category |-> ""]]

\* extractNewsKeywords (lines 346-360) on the texts handleNews can give it, evaluated
\* once: the request messages, and the topics of the classifications, trimmed
ComputedKeywords ==
    LET topics == {Computed.fallbackIntentDetection[m].topic : m \in MessageTexts}
                  \cup {OptGet(Computed.extractJson[t], k_topic) : t \in TextsFor("intent")}
    IN  [t \in MessageTexts \cup {trim(v.s) : v \in {w \in topics : w.t = "string"}} |->
            extractNewsKeywords(t)]

\* lines 398-416: the keywords, extractNewsKeywords(preparedTopic || originalMessage),
\* and the first query; QueryThrows where a value that is no string meets trim or
\* toLowerCase
handleNewsQuery(topic, originalMessage) ==
    IF Truthy(topic) /\ topic.t # "string" THEN QueryThrows
    ELSE LET preparedTopic == IF Truthy(topic) THEN trim(topic.s) ELSE <<>> IN
         IF preparedTopic = <<>> /\ originalMessage.t # "string" THEN QueryThrows
         ELSE firstQuery(ComputedKeywords[IF preparedTopic # <<>> THEN preparedTopic
                                          ELSE originalMessage.s])

\* lines 452-454: the query of the retry
fallbackParams(derivedKeywords) ==
    IF derivedKeywords # <<>>
    THEN [endpoint |-> "top-headlines", q |-> derivedKeywords, category |-> ""]
    ELSE [endpoint |-> "top-headlines", q |-> <<>>, category |-> "general"]

\* lines 418-444
formatArticles(articles, categoryTitle, batch) ==
    Reply("articles", <<>>, [entries |-> articles, title |-> categoryTitle, batch |-> batch])

\* lines 477-483
newsCatch(o) ==
    IF o.code = "rateLimited" THEN Reply("news_rate_limited", <<>>, <<>>)
    ELSE Reply("news_trouble", <<>>, <<>>)

\* lines 447-475 on the outcome of the first query; "retry" when the second goes out
handleNewsSettle(n, o) ==
    IF ~o.ok THEN Returned(newsCatch(o))
    ELSE IF o.articles = 0
    THEN IF n.hasSpecificKeywords
         THEN [end |-> "retry", reply |-> NoReply]
         ELSE Returned(Reply("news_none_now", <<>>, <<>>))
    ELSE Returned(formatArticles(o.articles,
                                 IF n.hasSpecificKeywords THEN "News about"
                                 ELSE "Today's General US Headlines", "first"))

\* the retry with its articles dropped: the message of line 462 whatever it returned
handleNewsRetrySettleGivesUp(n, o) ==
    IF ~o.ok THEN newsCatch(o) ELSE Reply("news_none_found", <<>>, <<>>)

\* lines 461-466 on the outcome of the retry
handleNewsRetrySettle(n, o) ==
    IF ~o.ok THEN newsCatch(o)
    ELSE IF o.articles = 0 THEN Reply("news_none_found", <<>>, <<>>)
    ELSE formatArticles(o.articles,
                        IF n.derivedKeywords # <<>> THEN "Top Headlines matching"
                        ELSE "Today's General US Headlines", "fallback")

(***************************************************************************)
(* handleGeneralResponse and its checks (server.js 485-677)                *)
(***************************************************************************)
k_is_sarcastic == <<"i", "s", "_", "s", "a", "r", "c", "a", "s", "t", "i", "c">>
k_is_low_mood == <<"i", "s", "_", "l", "o", "w", "_", "m", "o", "o", "d">>

\* analyzeSarcasm, lines 522-529, once callGemini has settled
analyzeSarcasmResume(f) ==
    IF f.st = "returned" THEN Computed.extractJson[f.text] ELSE Null

\* analyzeSentiment with a catch that returns null
analyzeSentimentResumeNull(f) ==
    IF f.st = "returned" THEN Computed.extractJson[f.text] ELSE Null

\* analyzeSentiment, lines 591-599
analyzeSentimentResume(f) ==
    IF f.st = "returned" THEN Computed.extractJson[f.text]
    ELSE Obj([k \in {k_is_low_mood} |-> Bool(FALSE)])

\* getGitaSupport, lines 572-581
getGitaSupportResume(f) ==
    IF f.st = "returned" THEN Computed.extractJson[f.text] ELSE Null

DegradedReply == Reply("general_degraded", <<>>, <<>>)

\* the final generation without the catch of lines 672-676: a failed call is answered
\* like an empty text
finalGenerationUncaught(f) ==
    IF f.st = "returned" /\ Computed.stripFence[f.text] # <<>>
    THEN Reply("general_answer", Computed.stripFence[f.text], <<>>)
    ELSE Reply("general_empty", <<>>, <<>>)

\* lines 660-676 once the final callGemini has settled
finalGeneration(f) ==
    IF f.st # "returned" THEN DegradedReply
    ELSE IF Computed.stripFence[f.text] # <<>>
    THEN Reply("general_answer", Computed.stripFence[f.text], <<>>)
    ELSE Reply("general_empty", <<>>, <<>>)

(***************************************************************************)
(* Dispatch and the steps of the handlers                                  *)
(***************************************************************************)
\* lines 693-699 with the chosen handler run up to its first await
Dispatch ==
    /\ pc = "dispatch"
    /\ IF classification.intent = Str(s_weather)
       THEN \* line 694: handleWeather runs up to its http.get, or returns
            /\ LET h == handleWeatherEnter(env, classification.location) IN
               IF h.end = "return"
               THEN reply' = h.reply /\ pc' = "respond" /\ UNCHANGED outbound
               ELSE /\ outbound' = [outbound EXCEPT
                                       !.weather = Append(@, classification.location)]
                    /\ pc' = "weather"
                    /\ UNCHANGED reply
            /\ UNCHANGED <<inv, tasks>>
       ELSE IF classification.intent = Str(s_news)
       THEN /\ IF ~env.NEWS_API_KEY
               THEN /\ reply' = Reply("news_not_configured", <<>>, <<>>)
                    /\ pc' = "respond"
                    /\ UNCHANGED <<inv, outbound>>
               ELSE /\ Invoke("news", GEMINI_MODEL(env))
                    /\ pc' = "newsAnswer"
                    /\ UNCHANGED reply
            /\ UNCHANGED tasks
       ELSE IF ~DISABLE_GEMINI(env)
       THEN \* lines 610-619: both checks start, each up to its http.post
            /\ LET started == callGeminiEnter(env, GEMINI_MODEL(env)) IN
               /\ inv' = [inv EXCEPT !["sarcasm"] = started, !["sentiment"] = started]
               /\ outbound' = [outbound EXCEPT !.gemini = @ + 2 * Posts(IdleFrame, started)]
            /\ pc' = "analysis"
            /\ UNCHANGED <<reply, tasks>>
       ELSE \* lines 628 and 661-675 with both results null
            /\ reply' = DegradedReply
            /\ pc' = "respond"
            /\ UNCHANGED <<inv, outbound, tasks>>
    /\ UNCHANGED <<aside, env, message, transport, classification, sarcastic, news, response>>

\* the http.get of handleWeather settles (lines 281-339)
WeatherSettles ==
    /\ pc = "weather"
    /\ \E o \in WeatherOutcomes : reply' = handleWeatherSettle(classification.location, o)
    /\ pc' = "respond"
    /\ UNCHANGED <<aside, env, message, inv, transport, classification, tasks, sarcastic, news,
                   response, outbound>>

\* handleNews resumes after await callGemini (lines 376-447): a is what the direct
\* answer came to and q the first query
NewsAnswerResumes ==
    /\ pc = "newsAnswer"
    /\ Settled(inv["news"])
    /\ inv' = [inv EXCEPT !["news"] = IdleFrame]
    /\ LET a == handleNewsAnswer(inv["news"])
           q == handleNewsQuery(classification.topic, message)
       IN  IF a.end = "return"
           THEN reply' = a.reply /\ pc' = "respond" /\ UNCHANGED <<news, outbound, response>>
           ELSE IF q.end = "throws"
           THEN /\ response' = GenericFault
                /\ pc' = "done"
                /\ UNCHANGED <<news, outbound, reply>>
           ELSE /\ news' = [derivedKeywords |-> q.derivedKeywords,
                            hasSpecificKeywords |-> q.hasSpecificKeywords]
                /\ outbound' = [outbound EXCEPT !.news = Append(@, q.request)]
                /\ pc' = "newsQuery"
                /\ UNCHANGED <<reply, response>>
    /\ UNCHANGED <<aside, env, message, transport, classification, tasks, sarcastic>>

\* the first http.get of handleNews settles (lines 447-475): r is what it came to
NewsSettles ==
    /\ pc = "newsQuery"
    /\ \E o \in NewsOutcomes :
        LET r == handleNewsSettle(news, o) IN
        IF r.end = "retry"
        THEN /\ outbound' = [outbound EXCEPT
                                !.news = Append(@, fallbackParams(news.derivedKeywords))]
             /\ pc' = "newsRetry"
             /\ UNCHANGED reply
        ELSE reply' = r.reply /\ pc' = "respond" /\ UNCHANGED outbound
    /\ UNCHANGED <<aside, env, message, inv, transport, classification, tasks, sarcastic, news,
                   response>>

\* the retry of handleNews settles (lines 456-466)
NewsRetrySettles ==
    /\ pc = "newsRetry"
    /\ \E o \in NewsOutcomes : reply' = handleNewsRetrySettle(news, o)
    /\ pc' = "respond"
    /\ UNCHANGED <<aside, env, message, inv, transport, classification, tasks, sarcastic, news,
                   response, outbound>>

\* analyzeSarcasm resumes after await callGemini and settles sarcasmTask
AnalyzeSarcasmResumes ==
    /\ pc = "analysis"
    /\ Settled(inv["sarcasm"])
    /\ tasks' = [tasks EXCEPT !.sarcasm = analyzeSarcasmResume(inv["sarcasm"])]
    /\ inv' = [inv EXCEPT !["sarcasm"] = IdleFrame]
    /\ UNCHANGED <<aside, env, message, pc, transport, classification, sarcastic, news, reply,
                   response, outbound>>

\* analyzeSentiment resumes after await callGemini and settles sentimentTask
AnalyzeSentimentResumes ==
    /\ pc = "analysis"
    /\ Settled(inv["sentiment"])
    /\ tasks' = [tasks EXCEPT !.sentiment = analyzeSentimentResume(inv["sentiment"])]
    /\ inv' = [inv EXCEPT !["sentiment"] = IdleFrame]
    /\ UNCHANGED <<aside, env, message, pc, transport, classification, sarcastic, news, reply,
                   response, outbound>>

\* handleGeneralResponse going on without awaiting Promise.all of its two checks
AnalysisResumesEarly ==
    /\ pc = "analysis"
    /\ sarcastic' = Truthy(OptGet(tasks.sarcasm, k_is_sarcastic))
    /\ tasks' = [sarcasm |-> Pending, sentiment |-> Pending]
    /\ Invoke("final", GEMINI_MODEL(env))
    /\ pc' = "final"
    /\ UNCHANGED <<aside, env, message, transport, classification, news, reply, response>>

\* handleGeneralResponse resumes after await Promise.all (lines 619-666)
AnalysisResumes ==
    /\ pc = "analysis"
    /\ tasks.sarcasm # Pending
    /\ tasks.sentiment # Pending
    /\ sarcastic' = Truthy(OptGet(tasks.sarcasm, k_is_sarcastic))
    /\ tasks' = [sarcasm |-> Pending, sentiment |-> Pending]
    /\ IF Truthy(OptGet(tasks.sentiment, k_is_low_mood))
       THEN /\ Invoke("gita", GEMINI_MODEL(env))
            /\ pc' = "gita"
            /\ UNCHANGED reply
       ELSE \* line 666: the final generation call goes out
            /\ Invoke("final", GEMINI_MODEL(env))
            /\ pc' = "final"
            /\ UNCHANGED reply
    /\ UNCHANGED <<aside, env, message, transport, classification, news, response>>

\* handleGeneralResponse testing the result of getGitaSupport against null only
GitaResumesUnlessNull ==
    /\ pc = "gita"
    /\ Settled(inv["gita"])
    /\ LET gitaResponse == getGitaSupportResume(inv["gita"])
           g == callGeminiEnter(env, GEMINI_MODEL(env))
       IN  IF gitaResponse # Null
           THEN /\ reply' = Reply("gita", <<>>, gitaResponse)
                /\ pc' = "respond"
                /\ inv' = [inv EXCEPT !["gita"] = IdleFrame]
                /\ UNCHANGED outbound
           ELSE /\ inv' = [inv EXCEPT !["gita"] = IdleFrame, !["final"] = g]
                /\ outbound' = [outbound EXCEPT !.gemini = @ + Posts(IdleFrame, g)]
                /\ pc' = "final"
                /\ UNCHANGED reply
    /\ UNCHANGED <<aside, env, message, transport, classification, tasks, sarcastic, news,
                   response>>

\* handleGeneralResponse resumes after await getGitaSupport (lines 630-666): the
\* verse is returned, or the final generation call goes out in frame g
GitaResumes ==
    /\ pc = "gita"
    /\ Settled(inv["gita"])
    /\ LET gitaResponse == getGitaSupportResume(inv["gita"])
           g == callGeminiEnter(env, GEMINI_MODEL(env))
       IN  IF Truthy(gitaResponse)
           THEN /\ reply' = Reply("gita", <<>>, gitaResponse)
                /\ pc' = "respond"
                /\ inv' = [inv EXCEPT !["gita"] = IdleFrame]
                /\ UNCHANGED outbound
           ELSE /\ inv' = [inv EXCEPT !["gita"] = IdleFrame, !["final"] = g]
                /\ outbound' = [outbound EXCEPT !.gemini = @ + Posts(IdleFrame, g)]
                /\ pc' = "final"
                /\ UNCHANGED reply
    /\ UNCHANGED <<aside, env, message, transport, classification, tasks, sarcastic, news,
                   response>>

\* handleGeneralResponse resumes after the final await callGemini (lines 666-676)
FinalResumes ==
    /\ pc = "final"
    /\ Settled(inv["final"])
    /\ reply' = finalGeneration(inv["final"])
    /\ inv' = [inv EXCEPT !["final"] = IdleFrame]
    /\ pc' = "respond"
    /\ UNCHANGED <<aside, env, message, transport, classification, tasks, sarcastic, news,
                   response, outbound>>

\* lines 701-702 with the intent sent trimmed
RespondTrimmed ==
    /\ pc = "respond"
    /\ response' = [status |-> 200,
                    body |-> [reply |-> reply, intent |-> Str(trim(classification.intent.s)),
                              location |-> classification.location,
                              topic |-> classification.topic]]
    /\ pc' = "done"
    /\ UNCHANGED <<aside, env, message, inv, transport, classification, tasks, sarcastic, news,
                   reply, outbound>>

\* lines 701-702
Respond ==
    /\ pc = "respond"
    /\ response' = [status |-> 200,
                    body |-> [reply |-> reply, intent |-> classification.intent,
                              location |-> classification.location,
                              topic |-> classification.topic]]
    /\ pc' = "done"
    /\ UNCHANGED <<aside, env, message, inv, transport, classification, tasks, sarcastic, news,
                   reply, outbound>>

Next ==
    \/ ChatPost
    \/ \E p \in Purposes : HttpPostSettles(p)
    \/ DetectIntentResumes
    \/ Dispatch
    \/ WeatherSettles
    \/ NewsAnswerResumes
    \/ NewsSettles
    \/ NewsRetrySettles
    \/ AnalyzeSarcasmResumes
    \/ AnalyzeSentimentResumes
    \/ AnalysisResumes
    \/ GitaResumes
    \/ FinalResumes
    \/ Respond

Spec == Init /\ [][Next]_vars

(***************************************************************************)
(* The model invoker on its own: one call of callGemini(prompt, model)     *)
(* against a scripted transport.  transport logs what the service answers  *)
(* to each http.post, in order.                                            *)
(***************************************************************************)
InitInvoker ==
    /\ env \in {e \in Environments :
                     e.WEATHER_API_KEY /\ e.NEWS_API_KEY /\ e.DISABLE_GEMINI = <<>>}
    /\ message = Undefined
    /\ pc = "invoker"
    /\ InitCommon
    /\ InitAside

InvokerCall ==
    /\ pc = "invoker"
    /\ inv["direct"].st = "idle"
    \* the model argument the callers pass: GEMINI_MODEL (lines 376, 666) and the
    \* literal of detectIntent (line 246)
    /\ \E model \in {GEMINI_MODEL(env), "gemini-2.5-flash"} : Invoke("direct", model)
    /\ UNCHANGED <<aside, env, message, pc, transport, classification, tasks, sarcastic, news,
                   reply, response>>

InvokerSettle ==
    /\ pc = "invoker"
    /\ inv["direct"].st = "awaiting"
    /\ \E outcome \in AllOutcomes({<<"o", "k">>}) :
        /\ SetFrame("direct", callGeminiSettle(inv["direct"], outcome))
        /\ transport' = Append(transport, outcome)
    /\ UNCHANGED <<aside, env, message, pc, classification, tasks, sarcastic, news, reply, response>>

NextInvoker == InvokerCall \/ InvokerSettle

SpecInvoker == InitInvoker /\ [][NextInvoker]_vars

(***************************************************************************)
(* extractJson on its own: one call on a text put together from pieces     *)
(***************************************************************************)
MaxTextLen == 5

RECURSIVE Concat(_)
Concat(pieces) == IF pieces = <<>> THEN <<>> ELSE Head(pieces) \o Concat(Tail(pieces))

Texts ==
    LET
        \* the pieces the texts are made of: the fences, the braces, a member, a number,
        \* white space and a letter
        Pieces ==
            {JsonFence, Fence, <<"{">>, <<"}">>, <<"\"", "a", "\"", ":", "7">>, <<"7">>, <<" ">>,
             <<"x">>}
    IN
    {Concat(ps) : ps \in UNION {[1..n -> Pieces] : n \in 0..MaxTextLen}}

InitExtract ==
    /\ env \in {e \in Environments : e.GEMINI_MODEL = "" /\ e.GEMINI_API_KEY
                     /\ e.WEATHER_API_KEY /\ e.NEWS_API_KEY /\ e.DISABLE_GEMINI = <<>>}
    /\ message = Undefined
    /\ pc = "extractJson"
    /\ InitCommon
    /\ input \in Texts
    /\ extracted = Pending
    /\ parked = <<>>
    /\ InitUi

\* lines 72-88
ExtractJsonCall ==
    /\ pc = "extractJson"
    /\ extracted = Pending
    /\ extracted' = extractJson(input)
    /\ UNCHANGED <<env, message, pc, inv, transport, classification, tasks, sarcastic,
                   news, reply, response, outbound, input, parked, ui>>

SpecExtract == InitExtract /\ [][ExtractJsonCall]_vars

(***************************************************************************)
(* Two /chat requests on one server.  The handler of a request runs from   *)
(* one await to the next; between two such steps the event loop may resume *)
(* the other request.  What a request holds is local to its call of the    *)
(* handler of line 679; the two share the module constants of lines 24-30. *)
(***************************************************************************)
\* what the running request holds
RequestState ==
    [message |-> message, pc |-> pc, inv |-> inv, classification |-> classification,
     tasks |-> tasks, sarcastic |-> sarcastic, news |-> news, reply |-> reply,
     response |-> response, outbound |-> outbound]

\* the event loop resumes the other request, with the classification kept in a
\* variable of the module that both requests write
SwitchSharingClassification ==
    /\ parked # <<>>
    /\ parked' = RequestState
    /\ message' = parked.message
    /\ pc' = parked.pc
    /\ inv' = parked.inv
    /\ tasks' = parked.tasks
    /\ sarcastic' = parked.sarcastic
    /\ news' = parked.news
    /\ reply' = parked.reply
    /\ response' = parked.response
    /\ outbound' = parked.outbound
    /\ UNCHANGED <<env, transport, input, extracted, ui, classification>>

\* the event loop resumes the other request
Switch ==
    /\ parked # <<>>
    /\ parked' = RequestState
    /\ message' = parked.message
    /\ pc' = parked.pc
    /\ inv' = parked.inv
    /\ classification' = parked.classification
    /\ tasks' = parked.tasks
    /\ sarcastic' = parked.sarcastic
    /\ news' = parked.news
    /\ reply' = parked.reply
    /\ response' = parked.response
    /\ outbound' = parked.outbound
    /\ UNCHANGED <<env, transport, input, extracted, ui>>

\* two requests arrive: with the model path switched off or without its key, each
\* with one of three messages (for the weather, for news, a greeting); with the model
\* path in use, one with such a message and one without a message
InitPair ==
    /\ env \in {e \in Environments :
                     /\ e.GEMINI_MODEL = "" /\ e.WEATHER_API_KEY /\ e.NEWS_API_KEY
                     /\ e.GEMINI_API_KEY \/ e.DISABLE_GEMINI = <<>>}
    /\ message \in {AllMessages[3], AllMessages[4], AllMessages[5]}
    /\ pc = "idle"
    /\ InitCommon
    /\ InitUi
    /\ input = <<>>
    /\ extracted = Pending
    /\ parked \in
         {[message |-> m, pc |-> "idle", inv |-> [p \in Purposes \cup {"direct"} |-> IdleFrame],
           classification |-> NoClassification,
           tasks |-> [sarcasm |-> Pending, sentiment |-> Pending], sarcastic |-> FALSE,
           news |-> [derivedKeywords |-> <<>>, hasSpecificKeywords |-> FALSE],
           reply |-> NoReply, response |-> NoResponse,
           outbound |-> [gemini |-> 0, weather |-> <<>>, news |-> <<>>]] :
          m \in IF env.GEMINI_API_KEY /\ env.DISABLE_GEMINI = <<>>
                THEN {Undefined}
                ELSE {AllMessages[3], AllMessages[4], AllMessages[5]}}

SpecPair == InitPair /\ [][Next \/ Switch]_vars

(***************************************************************************)
(* The chat UI (src/src/App.jsx): the state of the component App and its   *)
(* handler generateAnswer.  A call of generateAnswer runs to its await and *)
(* resumes when its request settles; meanwhile the component handles other *)
(* events.  requests lists the calls that passed the blank test, in order. *)
(***************************************************************************)
\* the most questions the user submits
MaxSubmissions == 3

\* lines 32 and 78
SorryText == <<"S", "o", "r", "r", "y", " ", "-", " ", "S", "o", "m", "e", "t", "h", "i", "n", "g", " ", "w", "e", "n", "t", " ", "w", "r", "o", "n", "g", ".", " ", "P", "l", "e", "a", "s", "e", " ", "t", "r", "y", " ", "a", "g", "a", "i", "n", "!">>

\* what the backend or the model answers
UiReplies == {<<"o", "k">>}

\* lines 60-62 and 66: the question goes to the backend, not to the model directly
viaBackend(currentQuestion) ==
    LET
        \* line 62
        isNews == {<<"n", "e", "w", "s">>,
             <<"h", "e", "a", "d", "l", "i", "n", "e">>,
             <<"h", "e", "a", "d", "l", "i", "n", "e", "s">>,
             <<"a", "r", "t", "i", "c", "l", "e">>,
             <<"a", "r", "t", "i", "c", "l", "e", "s">>,
             <<"u", "p", "d", "a", "t", "e">>,
             <<"u", "p", "d", "a", "t", "e", "s">>,
             <<"b", "r", "e", "a", "k", "i", "n", "g">>}
        \* line 61
        isWeather == {<<"w", "e", "a", "t", "h", "e", "r">>,
             <<"u", "p", "d", "a", "t", "e">>,
             <<"f", "o", "r", "e", "c", "a", "s", "t">>,
             <<"t", "e", "m", "p", "e", "r", "a", "t", "u", "r", "e">>,
             <<"r", "a", "i", "n">>,
             <<"s", "n", "o", "w">>,
             <<"s", "t", "o", "r", "m">>,
             <<"c", "l", "i", "m", "a", "t", "e">>,
             <<"a", "l", "e", "r", "t">>,
             <<"a", "l", "e", "r", "t", "s">>,
             <<"w", "i", "n", "d">>}
    IN
    \E k \in isWeather \cup isNews : includes(toLowerCase(currentQuestion), k)

\* onChange of the input box (line 158)
setQuestion ==
    LET
        \* what the user types into the input box
        Typed == {<<>>, <<" ">>, <<"h", "i">>, <<"n", "e", "w", "s">>}
    IN
    /\ \E value \in Typed : question' = value
    /\ UNCHANGED <<chatHistory, answer, generatingAnswer, requests, origin>>

\* generateAnswer from its call to its await (lines 48-72); a blank question returns
\* at line 50
generateAnswer ==
    /\ Len(requests) < MaxSubmissions
    /\ IF trim(question) = <<>>
       THEN UNCHANGED ui
       ELSE /\ generatingAnswer' = TRUE
            /\ question' = <<>>
            /\ chatHistory' = Append(chatHistory, [type |-> "question", content |-> question])
            /\ origin' = Append(origin, Len(requests) + 1)
            /\ requests' = Append(requests, [currentQuestion |-> question,
                                             backend |-> viaBackend(question),
                                             settled |-> FALSE])
            /\ UNCHANGED answer

\* the Send button, disabled while generatingAnswer (lines 168-174), submits the form
\* (line 152); the browser does not submit while the required input box is empty
\* (line 155)
onSubmit ==
    /\ ~generatingAnswer
    /\ question # <<>>
    /\ generateAnswer

\* Enter without Shift in the input box (lines 161-166)
onKeyDown == generateAnswer

\* the request of call i settles and generateAnswer goes on to its end (lines 64-80):
\* the post to the backend rejects into the catch of line 76; callGemini (lines 18-34)
\* catches what its own call throws and returns the apology
generateAnswerSettles(i) ==
    /\ i \in DOMAIN requests
    /\ ~requests[i].settled
    /\ \E ok \in BOOLEAN : \E aiResponse \in UiReplies :
           IF requests[i].backend /\ ~ok
           THEN /\ answer' = SorryText
                /\ UNCHANGED <<chatHistory, origin>>
           ELSE LET shown == IF ok THEN aiResponse ELSE SorryText IN
                /\ chatHistory' = Append(chatHistory, [type |-> "answer", content |-> shown])
                /\ origin' = Append(origin, i)
                /\ answer' = shown
    /\ generatingAnswer' = FALSE
    /\ requests' = [requests EXCEPT ![i].settled = TRUE]
    /\ UNCHANGED question

InitApp ==
    /\ env \in {e \in Environments : e.GEMINI_MODEL = "" /\ e.GEMINI_API_KEY
                     /\ e.WEATHER_API_KEY /\ e.NEWS_API_KEY /\ e.DISABLE_GEMINI = <<>>}
    /\ message = Undefined
    /\ pc = "App"
    /\ InitCommon
    /\ InitAside

NextApp ==
    LET
        \* the server side is not part of the chat UI on its own
        UiOnly ==
            UNCHANGED <<env, message, pc, inv, transport, classification, tasks, sarcastic, news,
                        reply, response, outbound, input, extracted, parked>>
    IN
    \/ setQuestion /\ UiOnly
    \/ onSubmit /\ UiOnly
    \/ onKeyDown /\ UiOnly
    \/ \E i \in 1..MaxSubmissions : generateAnswerSettles(i) /\ UiOnly

SpecApp == InitApp /\ [][NextApp]_vars

(***************************************************************************)
(* Properties of the model invoker (checked under SpecInvoker)             *)
(***************************************************************************)
\* the invocation under test
Direct == inv["direct"]

\* a response that carries usable text: a candidate that was not stopped for safety,
\* with non-empty text
Usable(o) == o.ok /\ o.candidates /\ o.finishReason # "SAFETY" /\ o.text # <<>>

\* a retriable failure as section 4.2 describes it: rate limit, server error, or a
\* network fault that left no response
RetriableFailure(o) ==
    /\ ~o.ok
    /\ \/ o.error.status = 429
       \/ o.error.status \in 500..599
       \/ o.error.status = 0

\* a terminal failure as section 4.2 describes it: bad request or auth failure
TerminalFailure(o) == ~o.ok /\ o.error.status \in {400, 401, 403}

\* C1: if the http.post to the first candidate answers with usable text, callGemini
\* returns that text, posts to no other candidate, and exactly one outbound call is made.
C1_FirstSuccessShortCircuits ==
    (transport # <<>> /\ Usable(transport[1])) =>
        /\ Direct.st = "returned"
        /\ Direct.text = transport[1].text
        /\ Direct.calls = <<Direct.modelsToTry[1]>>
        /\ Len(transport) = 1
        /\ outbound.gemini = 1

\* the first of two candidates answered with usable text
C1_Witness ==
    /\ transport # <<>>
    /\ Usable(transport[1])
    /\ Len(Direct.modelsToTry) = 2
    /\ Direct.st = "returned"

\* C2: whenever the post to a candidate fails with a retriable failure (rate limit,
\* server error, network fault) and a later candidate remains, the invocation goes on:
\* the next post is made to the next candidate of the list.
C2_RetriableFailureContinues ==
    \A k \in DOMAIN transport :
        (RetriableFailure(transport[k]) /\ k < Len(Direct.modelsToTry)) =>
            /\ Len(Direct.calls) > k
            /\ Direct.calls[k + 1] = Direct.modelsToTry[k + 1]

\* a server error on the first of two candidates ended the invocation
C2_Witness ==
    /\ Len(transport) = 1
    /\ transport[1] = Rejection(AxiosError(502, "ERR_BAD_RESPONSE"))
    /\ Len(Direct.modelsToTry) = 2
    /\ Direct.st = "thrown"

\* C3: when the post to a candidate fails with a terminal failure (bad request, auth
\* failure), no further candidate is posted to and that error is thrown; a terminal
\* failure of the first post leaves exactly one outbound call.
C3_TerminalFailureStops ==
    \A k \in DOMAIN transport :
        TerminalFailure(transport[k]) =>
            /\ Len(transport) = k
            /\ Len(Direct.calls) = k
            /\ outbound.gemini = k
            /\ Direct.st = "thrown"
            /\ Direct.error = transport[k].error

\* the first of two candidates answered 401
C3_Witness ==
    /\ Len(transport) = 1
    /\ transport[1] = Rejection(AxiosError(401, "ERR_BAD_REQUEST"))
    /\ Len(Direct.modelsToTry) = 2
    /\ Direct.st = "thrown"
    /\ outbound.gemini = 1

\* C4: against a transport that answers retriable failure, retriable failure, success,
\* one invocation makes a third post after the two failures, and returns the text of
\* the success having made exactly 3 outbound calls.
C4_TwoFailuresThenSuccess ==
    (Len(transport) >= 2 /\ RetriableFailure(transport[1]) /\ RetriableFailure(transport[2])) =>
        /\ Len(Direct.calls) = 3
        /\ (Len(transport) = 2 => Direct.st = "awaiting")
        /\ (Len(transport) = 3 /\ Usable(transport[3])) =>
               /\ Direct.st = "returned"
               /\ Direct.text = transport[3].text
               /\ outbound.gemini = 3

\* two candidates answered 503 and the invocation threw with the list exhausted
C4_Witness ==
    /\ Len(transport) = 2
    /\ transport[1] = Rejection(AxiosError(503, "ERR_BAD_RESPONSE"))
    /\ transport[2] = Rejection(AxiosError(503, "ERR_BAD_RESPONSE"))
    /\ Direct.st = "thrown"
    /\ Len(Direct.calls) = 2

\* the fallback identifiers of the candidate list
FixedFallbacks == {"gemini-2.0-flash"}

\* C5: the candidate list is free of duplicates, the preferred model first and the
\* fixed fallback identifiers after it; within one invocation the posts go to the
\* candidates in list order, each candidate at most once.
C5_CandidateListOrderedAndDeduplicated ==
    Direct.modelsToTry # <<>> =>
        /\ Direct.modelsToTry[1] = Direct.model
        /\ \A i, j \in DOMAIN Direct.modelsToTry :
               i # j => Direct.modelsToTry[i] # Direct.modelsToTry[j]
        /\ \A i \in 2..Len(Direct.modelsToTry) : Direct.modelsToTry[i] \in FixedFallbacks
        /\ FixedFallbacks \subseteq Range(Direct.modelsToTry)
        /\ Len(Direct.calls) <= Len(Direct.modelsToTry)
        /\ \A k \in DOMAIN Direct.calls : Direct.calls[k] = Direct.modelsToTry[k]
        /\ \A i, j \in DOMAIN Direct.calls : i # j => Direct.calls[i] # Direct.calls[j]

\* the preferred model is the fallback identifier itself: one candidate, posted to once
C5_Witness ==
    /\ Direct.model = "gemini-2.0-flash"
    /\ Direct.modelsToTry = <<"gemini-2.0-flash">>
    /\ Len(transport) = 1
    /\ Direct.st = "thrown"

\* every candidate of the list was posted to and none answered with usable text
Exhausted ==
    /\ Direct.modelsToTry # <<>>
    /\ Len(transport) = Len(Direct.modelsToTry)
    /\ Direct.st = "thrown"

\* the cause observed on an attempt that gave no usable text
CauseOf(o) ==
    IF ~o.ok THEN o.error
    ELSE IF ~o.candidates /\ o.blockReason # "" THEN Error("Gemini request blocked")
    ELSE IF ~o.candidates THEN Error("No candidates in Gemini response")
    ELSE IF o.finishReason = "SAFETY" THEN Error("Gemini response blocked due to safety settings")
    ELSE Error("Empty text content from Gemini response")

\* the error that stands for "all attempts failed" (line 177)
AllAttemptsFailed == Error("Gemini call failed after trying all fallbacks")

\* C6 as stated: when every candidate was tried without usable text, callGemini fails
\* with an aggregated all-attempts-failed error that carries the last cause.
C6_AggregatedErrorThrown ==
    Exhausted => Direct.error.message = AllAttemptsFailed.message

\* C6: when every candidate was tried without usable text, callGemini throws, and the
\* error thrown is the cause observed on the last candidate attempted, itself.
C6_LastCauseThrown ==
    /\ (Len(transport) = Len(Direct.modelsToTry) /\ transport # <<>>
            /\ ~Usable(transport[Len(transport)])) => Direct.st = "thrown"
    /\ Exhausted => Direct.error = CauseOf(transport[Len(transport)])

\* two candidates failed with different causes
C6_Witness ==
    /\ Exhausted
    /\ Len(transport) = 2
    /\ CauseOf(transport[1]) # CauseOf(transport[2])
    /\ transport[1].ok
    /\ ~transport[2].ok

(***************************************************************************)
(* Properties of the intent classifier and of the endpoint (under Spec)    *)
(***************************************************************************)
\* the kill switch as the environment sets it
KillSwitchOn == toLowerCase(env.DISABLE_GEMINI) = <<"t", "r", "u", "e">>

KnownIntents == {Str(s_weather), Str(s_news), Str(s_general)}

\* C7: with DISABLE_GEMINI true, detectIntent makes no call to callGemini and returns
\* exactly fallbackIntentDetection(message).
C7_DisabledClassifiesByFallback ==
    KillSwitchOn =>
        /\ inv["intent"] = IdleFrame
        /\ pc # "detectIntent"
        /\ pc = "dispatch" => outbound.gemini = 0
        /\ classification # NoClassification =>
               /\ message.t = "string"
               /\ classification = fallbackIntentDetection(message.s)

\* the message was classified with the kill switch on and a model key configured
C7_Witness ==
    /\ KillSwitchOn
    /\ env.GEMINI_API_KEY
    /\ pc = "dispatch"
    /\ classification.intent = Str(s_weather)
    /\ classification.location # Str(<<>>)

\* C8: with DISABLE_GEMINI true, no outbound call to the text-generation service is made
\* at any point of a /chat request, whatever the intent of the message.
C8_KillSwitchNoModelCall ==
    KillSwitchOn => outbound.gemini = 0

\* handleNews awaits the model service with the kill switch on
C8_Witness ==
    /\ KillSwitchOn
    /\ pc = "newsAnswer"
    /\ inv["news"].st = "awaiting"
    /\ outbound.gemini >= 1

\* the model path gave detectIntent nothing to return: callGemini threw, extractJson
\* found no structure, or the structure has no intent
NoIntentFromModel(f) ==
    \/ f.st = "thrown"
    \/ ~Truthy(extractJson(f.text))
    \/ OptGet(extractJson(f.text), k_intent) = Undefined

\* C9: for a string message detectIntent never throws: the request goes on to dispatch,
\* and when callGemini fails, extractJson finds no structure, or the object has no
\* intent, the classification is fallbackIntentDetection(message).
C9_DetectIntentNeverThrows ==
    [][(pc \in {"idle", "detectIntent"} /\ pc' # pc /\ Truthy(message) /\ message.t = "string") =>
          /\ pc' \in {"detectIntent", "dispatch"}
          /\ pc' = "dispatch" => classification' # NoClassification
          /\ (pc = "detectIntent" /\ NoIntentFromModel(inv["intent"])) =>
                 classification' = fallbackIntentDetection(message.s)]_vars

\* the model path was taken and the classification is the one of the keyword fallback
C9_Witness ==
    /\ ~KillSwitchOn
    /\ pc = "dispatch"
    /\ message.t = "string"
    /\ classification = fallbackIntentDetection(message.s)
    /\ classification.intent = Str(s_weather)
    /\ classification.location = Str(<<"i", "n", " ", "T", "o", "k", "y", "o">>)

\* C10: the intent detectIntent returns, which is dispatched on and echoed in the
\* response of /chat, is always weather, news or general, whatever the model answered.
C10_IntentIsKnown ==
    /\ classification # NoClassification => classification.intent \in KnownIntents
    /\ response.status = 200 => response.body.intent \in KnownIntents

\* a response that echoes an intent the model made up
C10_Witness ==
    /\ response.status = 200
    /\ response.body.intent = Str(<<"s", "p", "o", "r", "t", "s">>)
    /\ response.body.reply.kind \in {"general_answer", "general_degraded", "general_empty", "gita"}

\* an intent as the classifier is to normalize it: lower case, no surrounding white space
Normalized(s) == trim(toLowerCase(s))

\* the replies of each handler
WeatherKinds ==
    {"weather_not_configured", "weather_need_location", "weather_report",
     "weather_location_not_found", "weather_issue"}
NewsKinds ==
    {"news_not_configured", "news_answer", "articles", "news_none_now", "news_none_found",
     "news_rate_limited", "news_trouble"}
GeneralKinds == {"general_answer", "general_degraded", "general_empty", "gita"}
KindsOf(intent) ==
    IF intent = s_weather THEN WeatherKinds
    ELSE IF intent = s_news THEN NewsKinds
    ELSE GeneralKinds

\* C11: an intent of the model's output that is a known intent up to letter case and
\* surrounding white space is returned by detectIntent in lower case and trimmed, and
\* the request is dispatched to the handler of that intent.
C11_IntentNormalizedAndDispatched ==
    (classification # NoClassification
        /\ Str(Normalized(classification.intent.s)) \in KnownIntents) =>
        /\ classification.intent.s = Normalized(classification.intent.s)
        /\ reply # NoReply => reply.kind \in KindsOf(Normalized(classification.intent.s))

\* the model answered " Weather " and the general handler replied
C11_Witness ==
    /\ response.status = 200
    /\ response.body.intent = Str(<<" ", "w", "e", "a", "t", "h", "e", "r", " ">>)
    /\ response.body.location = Str(<<"O", "s", "l", "o">>)
    /\ response.body.reply.kind \in GeneralKinds
    /\ outbound.weather = <<>>

\* a message contains one of the keywords, whatever the letter case
ContainsKeyword(m, keywords) ==
    \E k \in DOMAIN keywords : includes(toLowerCase(m), keywords[k])

\* the intent section 8 gives a message on the fallback path
KeywordIntent(m) ==
    IF ContainsKeyword(m, weatherKeywords) THEN s_weather
    ELSE IF ContainsKeyword(m, newsKeywords) THEN s_news
    ELSE s_general

\* C12: fallbackIntentDetection returns weather for a message with a weather keyword
\* (with or without a news keyword), news for one with a news keyword and no weather
\* keyword, general for one with neither.  With the kill switch on every
\* classification is the one of fallbackIntentDetection.
C12_FallbackIntentByKeyword ==
    (KillSwitchOn /\ classification # NoClassification) =>
        /\ classification.intent = Str(KeywordIntent(message.s))
        /\ classification.intent = fallbackIntentDetection(message.s).intent

\* a message with a weather and a news keyword was classified weather
C12_Witness ==
    /\ KillSwitchOn
    /\ message = Str(<<"t", "r", "a", "i", "n", " ", "u", "p", "d", "a", "t", "e">>)
    /\ ContainsKeyword(message.s, weatherKeywords)
    /\ ContainsKeyword(message.s, newsKeywords)
    /\ classification.intent = Str(s_weather)

\* the place the message of section 8 asks about
Tokyo == <<"T", "o", "k", "y", "o">>

\* the model path is unavailable: it is switched off, or no key is configured
ModelPathUnavailable == KillSwitchOn \/ ~env.GEMINI_API_KEY

MissingOrEmpty == message = Undefined \/ message = Str(<<>>)

NothingSent == outbound = [gemini |-> 0, weather |-> <<>>, news |-> <<>>]

\* C14: a request whose message is missing or empty is answered 400 with an error
\* field by the step that receives it: the classifier, the handlers and the outbound
\* calls are never started for that request.
C14_MissingMessageRejected ==
    MissingOrEmpty =>
        /\ pc \in {"idle", "done"}
        /\ pc = "done" => response = Fault(400, "Message is required.")
        /\ \A p \in DOMAIN inv : inv[p] = IdleFrame
        /\ classification = NoClassification
        /\ tasks = [sarcasm |-> Pending, sentiment |-> Pending]
        /\ reply = NoReply
        /\ NothingSent

\* the empty message was rejected
C14_Witness ==
    /\ message = Str(<<>>)
    /\ pc = "done"
    /\ response.status = 400
    /\ response.body.error = "Message is required."
    /\ NothingSent

\* the request was classified weather and handleWeather has been called
WeatherHandled ==
    /\ classification # NoClassification
    /\ classification.intent = Str(s_weather)
    /\ pc # "dispatch"

\* C15: handleWeather asks the forecast source only with the weather key configured
\* and a location that is not empty; without the key it returns the not-configured
\* message, with the key and an empty location the message that asks for a location.
C15_WeatherPreconditions ==
    /\ outbound.weather # <<>> =>
           /\ env.WEATHER_API_KEY
           /\ Truthy(classification.location)
           /\ outbound.weather = <<classification.location>>
    /\ WeatherHandled =>
           /\ ~env.WEATHER_API_KEY =>
                  reply = Reply("weather_not_configured", <<>>, <<>>) /\ pc \in {"respond", "done"}
           /\ (env.WEATHER_API_KEY /\ ~Truthy(classification.location)) =>
                  reply = Reply("weather_need_location", <<>>, <<>>) /\ pc \in {"respond", "done"}

\* with the key configured, a weather request without a location is asked for one
C15_Witness ==
    /\ WeatherHandled
    /\ env.WEATHER_API_KEY
    /\ classification.location = Str(<<>>)
    /\ reply.kind = "weather_need_location"
    /\ outbound.weather = <<>>

\* the forecast source does not recognize the location: it answers status 400
LocationNotRecognized(o) == ~o.ok /\ o.status = 400

\* another failure of the call: an error of another status, or data without current
OtherWeatherFailure(o) == (~o.ok /\ o.status # 400) \/ (o.ok /\ o.current = "absent")

\* C16: when the forecast source answers that it does not recognize the location,
\* handleWeather returns (the request is answered 200) the message that names the
\* location it asked about; on another failure it returns the generic message.
C16_WeatherFailures ==
    /\ [](pc = "weather" =>
           \A o \in WeatherOutcomes :
               /\ LocationNotRecognized(o) =>
                      handleWeatherSettle(classification.location, o)
                          = Reply("weather_location_not_found", <<>>,
                                  [location |-> outbound.weather[1]])
               /\ OtherWeatherFailure(o) =>
                      handleWeatherSettle(classification.location, o)
                          = Reply("weather_issue", <<>>, <<>>))
    /\ [][pc = "weather" => pc' = "respond" /\ reply' # NoReply /\ response' = NoResponse]_vars
    /\ [][pc = "respond" /\ reply.kind \in WeatherKinds =>
              response'.status = 200 /\ response'.body.reply = reply]_vars

\* the answer to a request about a place the forecast source does not recognize
C16_Witness ==
    /\ pc = "done"
    /\ response.status = 200
    /\ response.body.reply.kind = "weather_location_not_found"
    /\ response.body.reply.detail.location = Str(<<"i", "n", " ">> \o Tokyo)

\* the text handleNews is to derive its keywords from: the topic, or the message
\* when the topic is empty
KeywordSource ==
    IF Truthy(classification.topic) /\ trim(classification.topic.s) # <<>>
    THEN classification.topic.s
    ELSE message.s

\* the tokens of a keyword string
TokensOf(keywords) == IF keywords = <<>> THEN <<>> ELSE splitSpace(keywords, 1, <<>>)

\* words of section 8 that are no stopwords
Electric == <<"e", "l", "e", "c", "t", "r", "i", "c">>
Vehicles == <<"v", "e", "h", "i", "c", "l", "e", "s">>

\* C17: once handleNews has made its first query, its keyword string is in lower
\* case, every token of it is a word of the topic (of the message when the topic is
\* empty) and none is a blacklisted stopword, there are at most 5 tokens, the words
\* electric and vehicles of the source are kept, and a keyword string that is not
\* empty is what the first query asks for.
C17_DerivedKeywords ==
    outbound.news # <<>> =>
        LET tokens == TokensOf(news.derivedKeywords) IN
        /\ news.derivedKeywords = toLowerCase(news.derivedKeywords)
        /\ \A i \in DOMAIN tokens :
               /\ tokens[i] \notin blacklist
               /\ tokens[i] # <<>>
               /\ includes(toLowerCase(KeywordSource), tokens[i])
        /\ Len(tokens) <= 5
        /\ \A w \in {Electric, Vehicles} :
               includes(toLowerCase(KeywordSource), w) => w \in Range(tokens)
        /\ news.hasSpecificKeywords <=> news.derivedKeywords # <<>>
        /\ news.derivedKeywords # <<>> => outbound.news[1].q = news.derivedKeywords

\* the keywords of a message with the stopwords news and about
C17_Witness ==
    /\ message = Str(<<"n", "e", "w", "s", " ", "a", "b", "o", "u", "t", " ", "e", "l", "e", "c", "t", "r", "i", "c", " ", "v", "e", "h", "i", "c", "l", "e", "s">>)
    /\ classification.topic = Str(<<"a", "b", "o", "u", "t", " ", "e", "l", "e", "c", "t", "r", "i", "c", " ", "v", "e", "h", "i", "c", "l", "e", "s">>)
    /\ pc = "newsQuery"
    /\ news.derivedKeywords = Electric \o <<" ">> \o Vehicles
    /\ outbound.news[1].q = news.derivedKeywords

\* the request handleNews sent last
LastNewsRequest == outbound.news[Len(outbound.news)]

\* C18: when the keyword query returns no article, handleNews retries once with a
\* broadened query, without the keyword and with a default category, and the message
\* that no article was found is returned only after that retry.
C18_RetryBroadened ==
    /\ pc = "newsRetry" =>
           /\ Len(outbound.news) = 2
           /\ outbound.news[1].q # <<>>
           /\ LastNewsRequest.q = <<>>
           /\ LastNewsRequest.category # ""
    /\ (reply # NoReply /\ reply.kind = "news_none_found") => Len(outbound.news) = 2

\* the retry asks the top headlines for the keywords of the first query, with no category
C18_Witness ==
    /\ pc = "newsRetry"
    /\ Len(outbound.news) = 2
    /\ outbound.news[1] = [endpoint |-> "everything", q |-> Electric \o <<" ">> \o Vehicles,
                           category |-> ""]
    /\ LastNewsRequest = [endpoint |-> "top-headlines", q |-> Electric \o <<" ">> \o Vehicles,
                          category |-> ""]

\* the outcomes of the retry that carry articles
WithArticles == {o \in NewsOutcomes : o.ok /\ o.articles > 0}

InGeneral == pc \in {"analysis", "gita", "final"}

\* the final generation call of handleGeneralResponse has failed: every candidate was
\* tried without usable text, or a failure stopped the invoker before the last one
FinalFailed == pc = "final" /\ inv["final"].st = "thrown"

\* C20: handleGeneralResponse returns the static degraded-service message when the
\* model path is disabled and when its generation call fails, whether the invoker
\* exhausted its candidates or stopped on a terminal failure; while it runs, the
\* request never goes to the catch of the endpoint.
C20_GeneralDegrades ==
    /\ [][(pc = "dispatch" /\ KillSwitchOn
              /\ classification.intent \notin {Str(s_weather), Str(s_news)}) =>
              reply' = DegradedReply /\ pc' = "respond"]_vars
    /\ [][(FinalFailed /\ pc' # pc) => reply' = DegradedReply /\ pc' = "respond"]_vars
    /\ [][InGeneral => (pc' \in {"analysis", "gita", "final", "respond"}
                          /\ response' = NoResponse)]_vars
    /\ []((KillSwitchOn /\ reply # NoReply /\ reply.kind \in GeneralKinds) =>
              reply = DegradedReply /\ outbound.gemini = 0)

\* the degraded message after the generation call failed on every candidate
C20_Witness ==
    /\ ~KillSwitchOn
    /\ env.GEMINI_API_KEY
    /\ pc = "respond"
    /\ reply = DegradedReply
    /\ outbound.gemini >= 6

\* C21: whatever classification the endpoint passes them and whatever the upstream
\* services answer, the handlers resolve to a reply: once the request is classified
\* it is never answered by the catch of the endpoint.
C21_HandlersNeverThrow ==
    classification # NoClassification =>
        /\ response.status \in {0, 200}
        /\ pc = "done" => reply # NoReply

\* the model classified the request news with a topic that is a number, and the
\* endpoint answered 500
C21_Witness ==
    /\ pc = "done"
    /\ classification.intent = Str(s_news)
    /\ classification.topic = Num(7)
    /\ reply = NoReply
    /\ response = GenericFault

\* the request was classified news and handleNews has been called
NewsHandled ==
    /\ classification # NoClassification
    /\ classification.intent = Str(s_news)
    /\ pc # "dispatch"

NotAnswered500 == response.status # 500

\* C22: a missing key never makes the endpoint answer a message (a string that is
\* not empty) with 500.
\* Without the model key the request is classified by the fallback, no call goes
\* out to the model service and the general handler gives the degraded message;
\* without the weather or the news key the handler gives its not-configured
\* message.  The answer of line 708 for a missing model key is never sent.
C22_MissingCredentialNoFault ==
    /\ response # Fault(500, "Server configuration error: AI service key is missing.")
    /\ (message.t = "string" /\ Truthy(message) /\ ~env.GEMINI_API_KEY) =>
           /\ NotAnswered500
           /\ outbound.gemini = 0
           /\ classification # NoClassification =>
                  classification = fallbackIntentDetection(message.s)
           /\ (reply # NoReply /\ reply.kind \in GeneralKinds) => reply = DegradedReply
    /\ (WeatherHandled /\ ~env.WEATHER_API_KEY) =>
           /\ NotAnswered500
           /\ reply = Reply("weather_not_configured", <<>>, <<>>)
    /\ (NewsHandled /\ ~env.NEWS_API_KEY) =>
           /\ NotAnswered500
           /\ reply = Reply("news_not_configured", <<>>, <<>>)

\* without the model key, with the model path enabled, a general message is answered
\* 200 with the degraded message
C22_Witness ==
    /\ ~env.GEMINI_API_KEY
    /\ ~KillSwitchOn
    /\ pc = "done"
    /\ classification.intent = Str(s_general)
    /\ response.status = 200
    /\ response.body.reply = DegradedReply

\* the callGemini invocations of the callers other than detectIntent
HandlerFramesIdle(purposes) == \A p \in purposes : inv[p] = IdleFrame

\* only the handler of the classified intent has run
OnlyHandlerOf(intent) ==
    IF intent = Str(s_weather)
    THEN outbound.news = <<>>
         /\ HandlerFramesIdle({"news", "sarcasm", "sentiment", "gita", "final"})
    ELSE IF intent = Str(s_news)
    THEN outbound.weather = <<>>
         /\ HandlerFramesIdle({"sarcasm", "sentiment", "gita", "final"})
    ELSE outbound.weather = <<>> /\ outbound.news = <<>> /\ HandlerFramesIdle({"news"})

\* C23: a request with a message is classified once, and then one handler runs:
\* handleWeather for intent weather, handleNews for intent news,
\* handleGeneralResponse for any other intent; the reply that handler returns is sent
\* with the intent, location and topic of the classification as they are.
C23_OneClassificationOneHandler ==
    /\ [][classification' # classification =>
              /\ classification = NoClassification
              /\ pc \in {"idle", "detectIntent"}
              /\ pc' = "dispatch"]_vars
    /\ [][reply' # reply =>
              /\ reply = NoReply
              /\ classification' = classification
              /\ reply'.kind \in KindsOf(classification.intent.s)
              /\ pc' = "respond"]_vars
    /\ [](classification # NoClassification => OnlyHandlerOf(classification.intent))
    /\ [](pc \in {"idle", "detectIntent"} =>
              /\ classification = NoClassification
              /\ reply = NoReply
              /\ outbound.weather = <<>> /\ outbound.news = <<>>
              /\ HandlerFramesIdle({"news", "sarcasm", "sentiment", "gita", "final"}))
    /\ [](response.status = 200 =>
              response.body = [reply |-> reply, intent |-> classification.intent,
                               location |-> classification.location,
                               topic |-> classification.topic])
    /\ [][pc = "respond" => response'.status = 200 /\ pc' = "done"]_vars

\* a request the model gave an intent of its own was answered by the general handler
C23_Witness ==
    /\ pc = "done"
    /\ response.status = 200
    /\ response.body.intent = Str(<<"s", "p", "o", "r", "t", "s">>)
    /\ response.body.reply.kind = "general_answer"
    /\ outbound.gemini >= 4

\* extractJson has returned
Extracted == pc = "extractJson" /\ extracted # Pending

\* C24: for every text that is JSON, extractJson(text) is JSON.parse(text).
C24_CleanJsonRoundTrip ==
    (Extracted /\ JSONparse(input).ok) => extracted = JSONparse(input).v

\* the text 7 is JSON for the number 7, and extractJson returns null
C24_Witness ==
    /\ Extracted
    /\ input = <<"7">>
    /\ JSONparse(input) = [ok |-> TRUE, v |-> Num(7)]
    /\ extracted = Null

\* the values JSON.parse returns
IsJsonValue(v) == v.t \in {"null", "boolean", "number", "string", "object"}

\* the value v is what some part of the text parses to
ParsedFromPartOf(s, v) ==
    \E a \in 1..Len(s) : \E b \in a..Len(s) :
        JSONparse(Slice(s, a, b)) = [ok |-> TRUE, v |-> v]

\* the text from its first opening brace to its last closing brace
OuterBraces(s) ==
    Slice(s, MinOr({p \in 1..Len(s) : s[p] = "{"}, Len(s) + 1),
             MinOr({p \in 1..Len(s) : s[p] = "}" /\ \A q \in (p + 1)..Len(s) : s[q] # "}"}, 0))

NoJsonFence(s) == \A p \in 1..Len(s) : ~MatchAt(s, p, JsonFence)

\* C25: a call of extractJson on a text returns, and returns null unless some part of
\* the text is JSON: null for the empty text, for a text without a brace span or fence,
\* and for a span that does not parse, as with unbalanced braces.
C25_ExtractNeverThrows ==
    Extracted =>
        /\ IsJsonValue(extracted)
        /\ input = <<>> => extracted = Null
        /\ extracted # Null => ParsedFromPartOf(input, extracted)
        /\ (NoJsonFence(input) /\ ~JSONparse(OuterBraces(input)).ok) => extracted = Null

\* a brace span with one brace too many does not parse and gives null
C25_Witness ==
    /\ Extracted
    /\ input = <<"{", "{", "\"", "a", "\"", ":", "7", "}">>
    /\ extracted = Null

\* a content-safety rejection: the prompt was blocked, or generation finished for safety
SafetyRejection(o) ==
    /\ o.ok
    /\ \/ ~o.candidates /\ o.blockReason # ""
       \/ o.candidates /\ o.finishReason = "SAFETY"

\* C27: a content-safety rejection of a candidate's call is terminal: callGemini makes
\* no call to a remaining candidate and throws the rejection.
C27_SafetyRejectionTerminal ==
    (transport # <<>> /\ SafetyRejection(transport[1])) =>
        /\ Len(transport) = 1
        /\ Len(Direct.calls) = 1
        /\ Direct.st = "thrown"
        /\ Direct.error = CauseOf(transport[1])

\* the first candidate's call was rejected for safety, the second was called and its
\* text returned
C27_Witness ==
    /\ Len(transport) = 2
    /\ SafetyRejection(transport[1])
    /\ Len(Direct.calls) = 2
    /\ Usable(transport[2])
    /\ Direct.st = "returned"

\* the replies handleNews builds from what the headlines source answered
HeadlineKinds ==
    {"articles", "news_none_now", "news_none_found", "news_rate_limited", "news_trouble"}

\* C28: for a news request with the news key configured, handleNews asks the headlines
\* source, for the derived keywords when there are some and for a default category
\* otherwise, and its reply is built from what that source answered.
C28_NewsFromHeadlines ==
    (NewsHandled /\ env.NEWS_API_KEY /\ reply # NoReply) =>
        /\ outbound.news # <<>>
        /\ outbound.news[1].q = news.derivedKeywords
        /\ news.derivedKeywords = <<>> => outbound.news[1].category # ""
        /\ reply.kind \in HeadlineKinds

\* with the news key configured, the reply to a news request is the text the model
\* gave, and the headlines source was not asked
C28_Witness ==
    /\ NewsHandled
    /\ env.NEWS_API_KEY
    /\ pc = "respond"
    /\ reply.kind = "news_answer"
    /\ reply.text = <<"E", "V", " ", "s", "a", "l", "e", "s", " ", "r", "o", "s", "e", ".">>
    /\ outbound.news = <<>>
    /\ outbound.gemini > 0

\* the fields of the weather report
ReportFields ==
    {"condition", "temp", "feelsLike", "humidity", "wind", "sunrise", "sunset", "timeInfo"}

\* a report with every field, each with its value or as N/A
StableShape(r) ==
    /\ r.kind = "weather_report"
    /\ ReportFields \subseteq DOMAIN r.detail
    /\ \A f \in ReportFields : r.detail[f] \in {"value", "N/A"}

\* C29: the reply handleWeather builds from a successful response of the forecast
\* source always has the same shape: every field of the report is there, a field the
\* response lacks as N/A, never left out, and the reply never turns into an error
\* message.
C29_WeatherReportShape ==
    /\ pc = "weather" =>
           \A o \in {w \in WeatherOutcomes : w.ok} :
               StableShape(handleWeatherSettle(classification.location, o))
    /\ (reply # NoReply /\ reply.kind = "weather_report") => StableShape(reply)

\* a report built from a response without the local time: the lines of day, date and
\* time are left out
C29_Witness ==
    /\ pc = "respond"
    /\ reply.kind = "weather_report"
    /\ reply.detail.timeInfo = "omitted"
    /\ reply.detail.condition = "N/A"
    /\ reply.detail.sunrise = "N/A"

\* the result that reports no low mood
NotLowMood == Obj([k \in {k_is_low_mood} |-> Bool(FALSE)])

\* handleGeneralResponse makes no model call of its own before both checks have
\* settled and their results are taken
ChecksAwaited ==
    /\ [](pc = "analysis" => inv["gita"] = IdleFrame /\ inv["final"] = IdleFrame)
    /\ [](pc \in {"gita", "final"} =>
              inv["sarcasm"] = IdleFrame /\ inv["sentiment"] = IdleFrame)
    /\ [][(pc = "analysis" /\ pc' # pc) =>
              /\ tasks.sarcasm # Pending /\ tasks.sentiment # Pending
              /\ pc' \in {"gita", "final"}
              /\ response' = NoResponse]_vars

\* C30 as stated: a check that fails is not fatal and yields the result null.
C30_FailedCheckYieldsNull ==
    pc = "analysis" =>
        /\ inv["sarcasm"].st = "thrown" => analyzeSarcasmResume(inv["sarcasm"]) = Null
        /\ inv["sentiment"].st = "thrown" => analyzeSentimentResume(inv["sentiment"]) = Null
        /\ ~env.GEMINI_API_KEY => tasks.sentiment \in {Pending, Null}

\* C30: handleGeneralResponse waits for analyzeSarcasm and analyzeSentiment to settle
\* before it makes a later model call, and a check that fails is not fatal: a failed
\* analyzeSarcasm yields null, a failed analyzeSentiment yields the result that
\* reports no low mood, and the handler goes on to the final generation.
C30_ChecksAwaitedAndNonFatal ==
    /\ ChecksAwaited
    /\ [](pc = "analysis" =>
              /\ inv["sarcasm"].st = "thrown" =>
                     analyzeSarcasmResume(inv["sarcasm"]) = Null
              /\ inv["sentiment"].st = "thrown" =>
                     analyzeSentimentResume(inv["sentiment"]) = NotLowMood
              /\ ~env.GEMINI_API_KEY =>
                     tasks.sarcasm \in {Pending, Null}
                         /\ tasks.sentiment \in {Pending, NotLowMood})
    /\ [][(pc = "analysis" /\ pc' # pc /\ tasks.sarcasm = Null
              /\ tasks.sentiment = NotLowMood) => pc' = "final" /\ ~sarcastic']_vars

\* both checks failed for want of the model key: their results are taken and the
\* handler is about to go on
C30_Witness ==
    /\ pc = "analysis"
    /\ ~env.GEMINI_API_KEY
    /\ inv["sarcasm"] = IdleFrame
    /\ inv["sentiment"] = IdleFrame
    /\ tasks.sarcasm = Null
    /\ tasks.sentiment = NotLowMood

\* the classifications a request with message m can get when it runs alone: the one of
\* the keyword fallback, or with the model path in use one the model's text gives
ModelClassifications ==
    {c.result : c \in {d \in {classifyParsed(extractJson(t)) : t \in IntentTexts} :
                           d.end = "return"}}

ClassificationsAlone(m) ==
    {fallbackIntentDetection(m.s)}
    \cup IF ModelPathUnavailable THEN {} ELSE ModelClassifications

\* what request r holds is what it holds when it runs alone: nothing before it starts,
\* a classification of its own message, the reply of the handler of its own intent,
\* queries about its own location and keywords, a response with its own reply
AsAlone(r) ==
    /\ r.pc = "idle" =>
           /\ r.classification = NoClassification
           /\ r.reply = NoReply
           /\ r.response = NoResponse
           /\ r.outbound = [gemini |-> 0, weather |-> <<>>, news |-> <<>>]
           /\ \A p \in DOMAIN r.inv : r.inv[p] = IdleFrame
    /\ r.classification # NoClassification =>
           r.classification \in ClassificationsAlone(r.message)
    /\ r.reply # NoReply => r.reply.kind \in KindsOf(r.classification.intent.s)
    /\ r.outbound.weather # <<>> => r.outbound.weather = <<r.classification.location>>
    /\ r.outbound.news # <<>> =>
           /\ r.outbound.news[1].q = r.news.derivedKeywords
           /\ r.news.derivedKeywords \in
                  {extractNewsKeywords(r.classification.topic.s),
                   extractNewsKeywords(r.message.s)}
    /\ r.response.status = 200 =>
           r.response.body = [reply |-> r.reply, intent |-> r.classification.intent,
                              location |-> r.classification.location,
                              topic |-> r.classification.topic]
    /\ r.response.status = 400 => ~Truthy(r.message)

\* C26: two requests that interleave share nothing they can change: a step of one
\* leaves what the other holds as it is, no step changes the module constants, and
\* each request, running or suspended, holds what it holds when it runs alone.
C26_RequestsIsolated ==
    /\ [][env' = env]_vars
    /\ [][parked' # parked => (parked' = RequestState /\ parked = RequestState')]_vars
    /\ [](parked # <<>> => AsAlone(RequestState) /\ AsAlone(parked))

\* both requests are answered, one about the weather and one with headlines
C26_Witness ==
    /\ parked # <<>>
    /\ pc = "done"
    /\ parked.pc = "done"
    /\ response.status = 200
    /\ response.body.reply.kind = "weather_report"
    /\ parked.response.status = 200
    /\ parked.response.body.reply.kind = "articles"
    /\ parked.outbound.gemini > 0

\* the outbound calls of the request that have not settled yet: one per callGemini
\* frame awaiting its POST, and the weather or headlines GET a handler awaits
InFlight ==
    Cardinality({p \in Purposes : inv[p].st = "awaiting"})
        + (IF pc \in {"weather", "newsQuery", "newsRetry"} THEN 1 ELSE 0)

\* C31: within one /chat request at most one outbound call is in flight, at most
\* two while handleGeneralResponse awaits its two auxiliary checks, and the number
\* of calls in flight only grows when no call is in flight (a later stage starts
\* its calls after the calls of the earlier stage have returned).
C31_StagesSequential ==
    /\ [](InFlight <= (IF pc = "analysis" THEN 2 ELSE 1))
    /\ [](pc = "analysis" => \A p \in Purposes \ {"sarcasm", "sentiment"} :
                                 inv[p].st # "awaiting")
    /\ [][InFlight' > InFlight => InFlight = 0]_vars

\* both auxiliary checks are in flight at once
C31_Witness ==
    /\ pc = "analysis"
    /\ InFlight = 2
    /\ inv["sarcasm"].st = "awaiting"
    /\ inv["sentiment"].st = "awaiting"

\* One /chat request whose steps are all taken in the end: the event loop runs every
\* continuation that is ready, and every outbound call settles, with an answer or
\* with the timeout of the shared client (server.js 65-67).
FairSpec == Spec /\ WF_vars(Next)

\* the outbound calls the request has made so far
CallsMade == outbound.gemini + Len(outbound.weather) + Len(outbound.news)

\* the order in which the request passes its stages
StageRank ==
    [s \in {"idle", "detectIntent", "dispatch", "weather", "newsAnswer", "newsQuery",
            "newsRetry", "analysis", "gita", "final", "respond", "done"} |->
        CASE s = "idle" -> 0
          [] s = "detectIntent" -> 1
          [] s = "dispatch" -> 2
          [] s \in {"weather", "newsAnswer", "analysis"} -> 3
          [] s \in {"newsQuery", "gita"} -> 4
          [] s \in {"newsRetry", "final"} -> 5
          [] s = "respond" -> 6
          [] OTHER -> 7]

\* C32: a /chat request is answered in the end, once; on the way no stage is entered
\* again, no callGemini invocation posts more than twice (once per candidate),
\* handleNews sends at most two headlines queries, and the request makes at most
\* ten outbound calls in all.
C32_AnsweredOnceBoundedCalls ==
    /\ <>(pc = "done" /\ response # NoResponse)
    /\ [][response # NoResponse => response' = response]_vars
    /\ [][pc' # pc => StageRank[pc'] > StageRank[pc]]_vars
    /\ [](\A p \in Purposes : Len(inv[p].calls) <= 2 /\ inv[p].i <= 2)
    /\ [](Len(outbound.news) <= 2)
    /\ [](CallsMade <= 10)

\* a request with a message answered after ten outbound calls, two by each of the
\* five invocations of the general path
C32_Witness ==
    /\ pc = "done"
    /\ Truthy(message)
    /\ response.status = 200
    /\ response.body.reply.kind = "general_answer"
    /\ outbound.gemini = 10

(***************************************************************************)
(* The order of the two strategies of extractJson (under SpecExtract)      *)
(***************************************************************************)
\* the positions of s at which a json-tagged fence with its closing fence starts
FencesOf(s) == {q \in 1..Len(s) : FenceMatchAt(s, q) # <<>>}
\* the positions of s at which a curly-brace span starts
BracesOf(s) == {q \in 1..Len(s) : BraceMatchAt(s, q) # <<>>}
\* what is between the first json-tagged fence of s and its closing fence
FenceContent(s) ==
    LET span == FenceMatchAt(s, Min(FencesOf(s))) IN Str(Slice(s, span[1], span[2]))
\* the first curly-brace span of s
BraceSpan(s) ==
    LET span == BraceMatchAt(s, Min(BracesOf(s))) IN Str(Slice(s, span[1], span[2]))

\* C33: whenever the text holds a json-tagged fence, extractJson returns what the
\* content of the fence parses to, wherever a curly-brace span occurs; with no such
\* fence it returns what the first curly-brace span parses to.
C33_FenceBeforeBraces ==
    Extracted =>
        /\ FencesOf(input) # {} => extracted = parseJsonString(FenceContent(input))
        /\ (FencesOf(input) = {} /\ BracesOf(input) # {}) =>
               extracted = parseJsonString(BraceSpan(input))

\* a brace span opens left of the fence: the span is parsed, not the fence content
C33_Witness ==
    /\ Extracted
    /\ input = <<"{", "}">> \o JsonFence \o <<"7">> \o Fence
    /\ extracted = Obj([k \in {} |-> Undefined])
    /\ parseJsonString(FenceContent(input)) = Num(7)

(***************************************************************************)
(* The fields of a classification (under Spec)                             *)
(***************************************************************************)
\* C34: every classification detectIntent resolves to, from the model or from the
\* keyword fallback, has its intent set and carries the fields location, topic and
\* activity, each of them a string.
C34_ClassificationFields ==
    classification # NoClassification =>
        /\ Truthy(classification.intent)
        /\ \A k \in {"location", "topic", "activity"} :
               k \in DOMAIN classification /\ classification[k].t = "string"

\* the model gave a number as the topic: the classification carries the number, and
\* it has no field activity
C34_Witness ==
    /\ pc = "dispatch"
    /\ classification.intent = Str(s_news)
    /\ classification.topic = Num(7)
    /\ "activity" \notin DOMAIN classification

(***************************************************************************)
(* The preferred candidate of each invocation (under Spec)                 *)
(***************************************************************************)
\* the model identifier the environment configures, the default when it sets none
Override == IF env.GEMINI_MODEL # "" THEN env.GEMINI_MODEL ELSE "gemini-2.5-flash"

\* the first candidate of the invocation of caller p is model
TriesFirst(p, model) ==
    inv[p].modelsToTry # <<>> =>
        /\ inv[p].model = model
        /\ inv[p].modelsToTry[1] = model
        /\ inv[p].calls[1] = model

\* C35: the configured model identifier is the first candidate of every callGemini
\* invocation made while a request is processed, the one for intent classification
\* included.
C35_OverrideAlwaysFirst == \A p \in Purposes : TriesFirst(p, Override)

\* C35, amended: the configured model identifier is the first candidate of every
\* invocation the handlers make (news answer, sarcasm, sentiment, Gita support,
\* final generation); the invocation for intent classification tries
\* gemini-2.5-flash first, whatever is configured.
C35_OverrideFirstInHandlers ==
    /\ \A p \in Purposes \ {"intent"} : TriesFirst(p, Override)
    /\ TriesFirst("intent", "gemini-2.5-flash")

\* with gemini-1.5-pro configured, the final generation has tried it and then the
\* fixed fallback, and the classification before it did not try it
C35_Witness ==
    /\ env.GEMINI_MODEL = "gemini-1.5-pro"
    /\ inv["final"].calls = <<"gemini-1.5-pro", "gemini-2.0-flash">>
    /\ outbound.gemini > 2

(***************************************************************************)
(* Gita support and the final generation (under Spec)                      *)
(***************************************************************************)
\* what getGitaSupport resolves to once its call has settled: the parsed text, null
\* after a failure
GitaResult ==
    IF inv["gita"].st = "returned" THEN extractJson(inv["gita"].text) ELSE Null

\* C36: a reply of handleGeneralResponse is the Gita-support message, given without
\* the final generation call, or the output of the final generation call, or the
\* static degraded-service message.
C36_GitaOrFinalOrDegraded ==
    /\ reply.kind = "gita" => (pc \in {"respond", "done"} /\ inv["final"] = IdleFrame)
    /\ reply.kind \in GeneralKinds =>
           reply.kind \in {"gita", "general_answer", "general_degraded"}

\* C36, amended: handleGeneralResponse asks for Gita support exactly when the
\* sentiment check gave a truthy is_low_mood; when getGitaSupport resolves to a
\* truthy result the reply is the Gita-support message made from it and the final
\* generation call is not issued, and when it resolves to null or to another falsy
\* value the final generation call is issued; after the final generation call the
\* reply is its output with the fence stripped, the static empty-response message
\* when nothing is left of the output, or the static degraded-service message when
\* the call failed.
C36_GitaElseFinal ==
    /\ [][(pc = "analysis" /\ pc' # pc) =>
              /\ pc' = (IF Truthy(OptGet(tasks.sentiment, k_is_low_mood)) THEN "gita"
                        ELSE "final")
              /\ reply' = NoReply]_vars
    /\ [][(pc = "gita" /\ pc' # pc) =>
              IF Truthy(GitaResult)
              THEN /\ reply' = Reply("gita", <<>>, GitaResult)
                   /\ pc' = "respond"
                   /\ inv'["final"] = IdleFrame
                   /\ outbound' = outbound
              ELSE /\ pc' = "final"
                   /\ reply' = NoReply
                   /\ inv'["final"].st # "idle"]_vars
    /\ [][(pc = "final" /\ pc' # pc) =>
              /\ pc' = "respond"
              /\ reply' = (IF inv["final"].st = "thrown" THEN DegradedReply
                           ELSE IF stripFence(inv["final"].text) = <<>>
                           THEN Reply("general_empty", <<>>, <<>>)
                           ELSE Reply("general_answer", stripFence(inv["final"].text), <<>>))]_vars
    /\ [](reply.kind = "gita" => (pc \in {"respond", "done"} /\ inv["final"] = IdleFrame))
    /\ [](inv["final"].st # "idle" => (pc = "final" /\ reply = NoReply))

\* the Gita-support message is the reply, and the final generation call was not made:
\* the request made the calls of the classification, the two checks and Gita support
C36_Witness ==
    /\ pc = "done"
    /\ response.status = 200
    /\ response.body.reply.kind = "gita"
    /\ Truthy(response.body.reply.detail)
    /\ outbound.gemini = 4

(***************************************************************************)
(* Properties of the chat UI (under SpecApp)                               *)
(***************************************************************************)
\* the calls of generateAnswer whose request has not settled
Unsettled == {i \in DOMAIN requests : ~requests[i].settled}
\* the places of chatHistory where call i put an entry of the given type
EntriesOf(i, type) ==
    {k \in DOMAIN chatHistory : origin[k] = i /\ chatHistory[k].type = type}

\* C37: at most one submission is in flight, and chatHistory alternates question,
\* answer, question, answer, each answer right after the question it answers.
C37_OneInFlightAlternating ==
    /\ Cardinality(Unsettled) <= 1
    /\ \A k \in DOMAIN chatHistory :
           /\ chatHistory[k].type = (IF k % 2 = 1 THEN "question" ELSE "answer")
           /\ chatHistory[k].type = "answer" => origin[k - 1] = origin[k]

\* a second question was submitted with Enter while the first was in flight, and the
\* answer to the second came before the answer to the first
C37_Witness ==
    /\ Len(chatHistory) = 4
    /\ [k \in 1..4 |-> chatHistory[k].type] = <<"question", "question", "answer", "answer">>
    /\ origin = <<1, 2, 2, 1>>

\* C38: once the request of a submitted question has settled, chatHistory holds
\* exactly one answer entry for it, after its question entry, whether the call
\* succeeded or failed (the apology text then); before that it holds none.
C38_EachQuestionAnswered ==
    \A i \in DOMAIN requests :
        /\ Cardinality(EntriesOf(i, "question")) = 1
        /\ Cardinality(EntriesOf(i, "answer")) = (IF requests[i].settled THEN 1 ELSE 0)
        /\ \A q \in EntriesOf(i, "question") : \A a \in EntriesOf(i, "answer") : q < a
        /\ \A a \in EntriesOf(i, "answer") :
               chatHistory[a].content \in UiReplies \cup {SorryText}

\* the post to the backend failed: the apology is set as the answer, and the question
\* stays without an answer entry
C38_Witness ==
    /\ requests # <<>>
    /\ requests[1].backend
    /\ requests[1].settled
    /\ Unsettled = {}
    /\ answer = SorryText
    /\ ~generatingAnswer
    /\ EntriesOf(1, "answer") = {}
    /\ chatHistory[Len(chatHistory)].type = "question"

\* C39: generatingAnswer is true while the request of a submitted question has not
\* settled, and false when every submission has completed.
C39_GeneratingWhileInFlight == generatingAnswer = (Unsettled # {})

\* two submissions overlapped and one has completed: generatingAnswer is false while
\* the request of the other is in flight
C39_Witness ==
    /\ Cardinality(Unsettled) = 1
    /\ \E i \in DOMAIN requests : requests[i].settled
    /\ ~generatingAnswer

====
